---- MODULE Spec2Model ----
(***************************************************************************)
(* A model of ccrec.env.base: the recording environment (Env), the         *)
(* response -> event translation (parse_response), the reward evaluation   *)
(* (_evaluate_response) and the ingestion step (_sanitize_inputs).         *)
(*                                                                         *)
(* Data representation                                                     *)
(*  - a table (DataFrame) is a sequence of records, in row order;          *)
(*  - a time is an integer number of thousandths of the time unit, so that *)
(*    the division by 1e3 of parse_response is exact on whole inputs;      *)
(*  - a missing cell is NaN, an absent argument is None;                   *)
(*  - a ratio pos / imp is the record [num |-> pos, den |-> imp].          *)
(***************************************************************************)
EXTENDS Integers, Sequences, FiniteSets, TLC

VARIABLES
    user_df,            \* Env.user_df: sequence of [USER_ID, TEST_START_TIME]
    item_df,            \* Env.item_df: sequence of ITEM_ID (the index)
    event_df,           \* Env.event_df: the event log, a sequence of events
    test_requests,      \* Env.test_requests: sequence of [USER_ID, TEST_START_TIME]
    sample_size,        \* Env.sample_size
    recording,          \* Env.recording
    _start_step_idx,    \* Env._start_step_idx
    _response,          \* Env._response: step index -> response
    _reward_by_policy,  \* Env._reward_by_policy: sequence of reward mappings
    scorer,             \* which _invoke override the environment carries
    latency,            \* wall-clock time one _invoke call takes
    clock,              \* time.time()
    init_event_df,      \* history: the event log as __post_init__ left it
    snapshots,          \* history: per step() call, the log its Dataset was built from
    step_log,           \* history: per step() call, the step index it used
    call,               \* pure-function checks: the arguments of the call
    result              \* pure-function checks: what the calls returned

vars == <<user_df, item_df, event_df, test_requests, sample_size, recording,
          _start_step_idx, _response, _reward_by_policy, scorer, latency, clock,
          init_event_df, snapshots, step_log, call, result>>

envVars == <<user_df, item_df, event_df, test_requests, sample_size, recording,
             _start_step_idx, _response, _reward_by_policy, scorer, latency,
             init_event_df, snapshots, step_log>>

(***************************************************************************)
(* Bounds and constants                                                    *)
(***************************************************************************)
MaxSteps == 3       \* step() calls per behaviour
MaxCand == 2        \* candidates per generated response row
Unit == 1000        \* thousandths per time unit; the 1e3 of parse_response

NaN == 0 - 999999  \* a missing cell of a numeric column (float nan)
NA == "NaN"        \* a missing cell of an object column
None == 0 - 888888 \* the absent step_idx argument

T(v) == v * Unit

(***************************************************************************)
(* Generic helpers                                                         *)
(***************************************************************************)
Range(s) == {s[k] : k \in DOMAIN s}

SetMax(S) == CHOOSE x \in S : \A y \in S : y <= x

RECURSIVE Flatten(_)
Flatten(ss) == IF ss = <<>> THEN <<>> ELSE Head(ss) \o Flatten(Tail(ss))

RECURSIVE SumSeq(_)
SumSeq(s) == IF s = <<>> THEN 0 ELSE Head(s) + SumSeq(Tail(s))

\* s[mask]: the entries of s where the boolean mask holds, in order
boolean_mask(s, mask) ==
    LET F[k \in 0..Len(s)] ==
            IF k = 0 THEN <<>>
            ELSE IF mask[k] THEN Append(F[k - 1], s[k]) ELSE F[k - 1]
    IN F[Len(s)]

\* str() of an integer
DigitStr(d) == CASE d = 0 -> "0" [] d = 1 -> "1" [] d = 2 -> "2" [] d = 3 -> "3"
                 [] d = 4 -> "4" [] d = 5 -> "5" [] d = 6 -> "6" [] d = 7 -> "7"
                 [] d = 8 -> "8" [] d = 9 -> "9"

RECURSIVE NatStr(_)
NatStr(n) == IF n < 10 THEN DigitStr(n) ELSE NatStr(n \div 10) \o DigitStr(n % 10)

str(n) == IF n < 0 THEN "-" \o NatStr(0 - n) ELSE NatStr(n)

\* np.argsort(x, kind='stable'), as positions 1..Len(x)
argsort_stable(x) ==
    CHOOSE p \in Permutations(DOMAIN x) :
        \A a, b \in DOMAIN x :
            a < b => \/ x[p[a]] < x[p[b]]
                     \/ (x[p[a]] = x[p[b]] /\ p[a] < p[b])

(***************************************************************************)
(* parse_response(response, step_idx=None, infer_time_unit=True)           *)
(*                                                                         *)
(* A response is a sequence of rows [USER_ID, TEST_START_TIME, cand_items, *)
(* _group, multi_label, request_time], indexed by (USER_ID,                *)
(* TEST_START_TIME); the index is unique.                                  *)
(***************************************************************************)
\* faulty variant of dense_rank_minus_1: rank(method='min'), ties leave gaps
min_rank_minus_1(response) ==
    [k \in DOMAIN response |->
        Cardinality({j \in DOMAIN response : response[j].request_time < response[k].request_time})]

\* response['request_time'].rank(method='dense').values - 1
dense_rank_minus_1(response) ==
    [k \in DOMAIN response |->
        Cardinality({response[j].request_time : j \in DOMAIN response}
                    \cap {t \in {response[j].request_time : j \in DOMAIN response} :
                             t < response[k].request_time})]

\* Series.explode(): one entry per list element, an empty list gives one NaN entry
explode(response, col, nan) ==
    Flatten([k \in DOMAIN response |->
        IF response[k][col] = <<>> THEN <<[row |-> k, val |-> nan]>>
        ELSE [n \in DOMAIN response[k][col] |-> [row |-> k, val |-> response[k][col][n]]]])

\* assigning .values of another exploded column needs the same number of entries
parse_response_raises(response) ==
    \/ Len(explode(response, "multi_label", NaN)) # Len(explode(response, "cand_items", NA))
    \/ Len(explode(response, "_group", NaN)) # Len(explode(response, "cand_items", NA))

\* new_events before the time-unit fixup
exploded_events(response, step_idx) ==
    LET idx == IF step_idx = None THEN dense_rank_minus_1(response)
               ELSE [k \in DOMAIN response |-> step_idx]
        items == explode(response, "cand_items", NA)
        values == explode(response, "multi_label", NaN)
        groups == explode(response, "_group", NaN)
    IN [n \in DOMAIN items |->
           [USER_ID |-> response[items[n].row].USER_ID,
            ITEM_ID |-> items[n].val,
            TIMESTAMP |-> response[items[n].row].request_time,
            VALUE |-> values[n].val,
            _group |-> groups[n].val,
            step_idx |-> idx[items[n].row]]]

\* faulty variant of time_unit_fixup: divides row by row instead of all or nothing
time_unit_fixup_per_row(events, infer_time_unit, now) ==
    [n \in DOMAIN events |->
        IF infer_time_unit /\ events[n].TIMESTAMP > now
        THEN [events[n] EXCEPT !.TIMESTAMP = events[n].TIMESTAMP \div Unit]
        ELSE events[n]]

\* faulty variant of time_unit_fixup: the smallest timestamp decides
time_unit_fixup_on_min(events, infer_time_unit, now) ==
    IF infer_time_unit /\ events # <<>>
       /\ \A n \in DOMAIN events : events[n].TIMESTAMP > now
    THEN [n \in DOMAIN events |->
             [events[n] EXCEPT !.TIMESTAMP = events[n].TIMESTAMP \div Unit]]
    ELSE events

\* if infer_time_unit and new_events['TIMESTAMP'].max() > time.time()
time_unit_fixup(events, infer_time_unit, now) ==
    IF infer_time_unit /\ events # <<>>
       /\ SetMax({events[n].TIMESTAMP : n \in DOMAIN events}) > now
    THEN [n \in DOMAIN events |->
             [events[n] EXCEPT !.TIMESTAMP = events[n].TIMESTAMP \div Unit]]
    ELSE events

parse_response(response, step_idx, infer_time_unit, now) ==
    time_unit_fixup(exploded_events(response, step_idx), infer_time_unit, now)

\* faulty variant of response_after_parse: the step_idx column is added in place
response_with_step_idx_column(response, step_idx) ==
    [k \in DOMAIN response |->
        [USER_ID |-> response[k].USER_ID, TEST_START_TIME |-> response[k].TEST_START_TIME,
         cand_items |-> response[k].cand_items, _group |-> response[k]._group,
         multi_label |-> response[k].multi_label, request_time |-> response[k].request_time,
         step_idx |-> IF step_idx = None THEN dense_rank_minus_1(response)[k] ELSE step_idx]]

\* the caller's response after the call: response.assign(...) builds a new
\* frame and rebinds the local name only
response_after_parse(response, step_idx) == response

(***************************************************************************)
(* _evaluate_response(response)                                            *)
(***************************************************************************)
\* np.vstack(rows): needs at least one row, and rows of one length
vstack_raises(rows) ==
    \/ rows = <<>>
    \/ \E j, k \in DOMAIN rows : Len(rows[j]) # Len(rows[k])

\* the exception _evaluate_response ends with, "" for none: ValueError from
\* np.vstack (lines 246-247); IndexError from data[group == group_id] (line
\* 251) when the two shapes differ, which is only evaluated for a group id of
\* np.unique(group), so never when every _group list is empty
evaluate_response_error(response) ==
    IF \/ vstack_raises([k \in DOMAIN response |-> response[k].multi_label])
       \/ vstack_raises([k \in DOMAIN response |-> response[k]._group])
    THEN "ValueError"
    ELSE IF /\ Len(response[1]._group) > 0
            /\ Len(response[1].multi_label) # Len(response[1]._group)
         THEN "IndexError"
         ELSE ""

evaluate_response_raises(response) == evaluate_response_error(response) # ""

\* faulty variant of _evaluate_response: divides by the number of all positions
evaluate_response_over_all(response) ==
    LET data == Flatten([k \in DOMAIN response |-> response[k].multi_label])
        group == Flatten([k \in DOMAIN response |-> response[k]._group])
        unique == Range(group)
    IN [key \in {str(g) : g \in unique} |->
           LET group_id == CHOOSE g \in unique : str(g) = key
               mask == [n \in DOMAIN group |-> group[n] = group_id]
           IN [num |-> SumSeq(boolean_mask(data, mask)),
               den |-> Len(data)]]

_evaluate_response(response) ==
    LET data == Flatten([k \in DOMAIN response |-> response[k].multi_label])
        group == Flatten([k \in DOMAIN response |-> response[k]._group])
        unique == Range(group)
    IN [key \in {str(g) : g \in unique} |->
           LET group_id == CHOOSE g \in unique : str(g) = key
               mask == [n \in DOMAIN group |-> group[n] = group_id]
           IN [num |-> SumSeq(boolean_mask(data, mask)),
               den |-> Len(boolean_mask(group, mask))]]

(***************************************************************************)
(* Env: request construction                                               *)
(***************************************************************************)
\* self.item_df[self.item_df.index != 'Other']
item_in_test_of(items) == boolean_mask(items, [k \in DOMAIN items |-> items[k] # "Other"])

\* Dataset(user_df, item_df, event_df, test_requests, item_in_test, ...):
\* the snapshot a step's policies and scorer are given
_create_testing_dataset(users, items, events, requests) ==
    [user_df |-> users, item_df |-> items, event_df |-> events,
     test_requests |-> requests, item_in_test |-> item_in_test_of(items)]

\* The policies a caller may hand to step(): each returns, per test request,
\* total_size positions into item_in_test.
Policies == {"head", "tail"}

policy(p, D, total_size) ==
    [r \in DOMAIN D.test_requests |->
        IF p = "head" THEN [n \in 1..total_size |-> n - 1]
        ELSE [n \in 1..total_size |-> Len(D.item_in_test) - n]]

\* merge_unique(list_of_lists, sizes, total_size), as the specification words
\* it: a stable dedup by first occurrence across the policies' lists, which
\* keeps the total budget and returns the merged list with its group tags.
\* The specification gives sizes no role of their own.
\* the entries of the lists in policy order, each with its 0-based policy tag
tagged_proposals(lol) ==
    Flatten([k \in DOMAIN lol |->
        [n \in DOMAIN lol[k] |-> [item |-> lol[k][n], group |-> k - 1]]])

\* stable dedup by first occurrence
first_occurrences(proposals) ==
    boolean_mask(proposals, [n \in DOMAIN proposals |->
        \A m \in 1..(n - 1) : proposals[m].item # proposals[n].item])

merge_unique(lol, sizes, total_size) ==
    LET merged == first_occurrences(tagged_proposals(lol))
        n == IF Len(merged) < total_size THEN Len(merged) ELSE total_size
    IN [items |-> [m \in 1..n |-> merged[m].item],
        groups |-> [m \in 1..n |-> merged[m].group]]

\* the _reverse_index column: the possible values for one row
reverse_index_choices(group, _sort_candidates) ==
    IF _sort_candidates
    THEN {argsort_stable(boolean_mask(group, [n \in DOMAIN group |-> group[n] # 0 - 1]))}
    ELSE Permutations(DOMAIN group)

\* faulty variant of sort_or_shuffle_row: cand_titles is left in its old order
sort_or_shuffle_row_keeping_titles(row, reverse_index) ==
    [row EXCEPT !._group = [n \in DOMAIN reverse_index |-> row._group[reverse_index[n]]],
                !.cand_items = [n \in DOMAIN reverse_index |-> row.cand_items[reverse_index[n]]]]

\* one row of _sort_or_shuffle, given the row's _reverse_index: each of the
\* three list columns is indexed with it
sort_or_shuffle_row(row, reverse_index) ==
    [row EXCEPT !._group = [n \in DOMAIN reverse_index |-> row._group[reverse_index[n]]],
                !.cand_items = [n \in DOMAIN reverse_index |-> row.cand_items[reverse_index[n]]],
                !.cand_titles = [n \in DOMAIN reverse_index |-> row.cand_titles[reverse_index[n]]]]

_sort_or_shuffle(request, reverse_index) ==
    [r \in DOMAIN request |-> sort_or_shuffle_row(request[r], reverse_index[r])]

\* self._item_titles.loc[x]: without a TITLE column the title is the item id,
\* cut to _text_width characters; the ids used here are shorter than that
_item_titles(x) == x

\* faulty variant of merged_request: the leading sample_size entries of the
\* policies' lists are put side by side, not merged
merged_request_without_merge(D, policies, ssize, now) ==
    [r \in DOMAIN D.test_requests |->
        LET items == Flatten([k \in DOMAIN policies |->
                         SubSeq(policy(policies[k], D, ssize * Len(policies))[r], 1, ssize)])
        IN [USER_ID |-> D.test_requests[r].USER_ID,
            TEST_START_TIME |-> D.test_requests[r].TEST_START_TIME,
            cand_items |-> [n \in DOMAIN items |-> D.item_in_test[items[n] + 1]],
            _group |-> [n \in DOMAIN items |-> (n - 1) \div ssize],
            request_time |-> now,
            cand_titles |-> [n \in DOMAIN items |-> _item_titles(D.item_in_test[items[n] + 1])]]]

\* lines 147-159: the request before _sort_or_shuffle, by the per-policy sizes
merged_request_of_sizes(D, policies, sizes, now) ==
    LET total_size == SumSeq(sizes)
        J == [k \in DOMAIN policies |-> policy(policies[k], D, total_size)]
    IN [r \in DOMAIN D.test_requests |->
           LET display == merge_unique([k \in DOMAIN policies |-> J[k][r]], sizes, total_size)
           IN [USER_ID |-> D.test_requests[r].USER_ID,
               TEST_START_TIME |-> D.test_requests[r].TEST_START_TIME,
               cand_items |-> [n \in DOMAIN display.items |->
                                  D.item_in_test[display.items[n] + 1]],
               _group |-> display.groups,
               request_time |-> now,
               cand_titles |-> [n \in DOMAIN display.items |->
                                   _item_titles(D.item_in_test[display.items[n] + 1])]]]

\* the request before _sort_or_shuffle, for a scalar sample_size: line 146
\* counts it once per policy
merged_request(D, policies, ssize, now) ==
    merged_request_of_sizes(D, policies, [k \in DOMAIN policies |-> ssize], now)

\* Env._sort_candidates as __post_init__ sets it for the default _is_synthetic
default_sort_candidates == TRUE

\* line 160: the requests _sort_or_shuffle may make of req (one per draw of the
\* reverse indices)
sorted_or_shuffled(req) ==
    {_sort_or_shuffle(req, ri) :
        ri \in {f \in [DOMAIN req -> UNION {reverse_index_choices(req[r]._group,
                                                default_sort_candidates) : r \in DOMAIN req}] :
                   \A r \in DOMAIN req :
                       f[r] \in reverse_index_choices(req[r]._group, default_sort_candidates)}}

\* the requests _create_request may return
_create_request(D, policies, ssize, now) ==
    sorted_or_shuffled(merged_request(D, policies, ssize, now))

(***************************************************************************)
(* Env: the scorer, the step index and the event log                       *)
(***************************************************************************)
\* The _invoke overrides considered: the response is the request plus a
\* multi_label column aligned with cand_items.
Scorers == {"zeros", "ones", "first"}

_invoke(sc, request, D, step_idx) ==
    [r \in DOMAIN request |->
        [USER_ID |-> request[r].USER_ID,
         TEST_START_TIME |-> request[r].TEST_START_TIME,
         cand_items |-> request[r].cand_items,
         _group |-> request[r]._group,
         request_time |-> request[r].request_time,
         cand_titles |-> request[r].cand_titles,
         multi_label |-> [n \in DOMAIN request[r].cand_items |->
                             CASE sc = "zeros" -> 0
                               [] sc = "ones" -> 1
                               [] OTHER -> IF n = 1 THEN 1 ELSE 0]]]

\* faulty variant of _get_step_idx: reuses the largest recorded index
_get_step_idx_skipping_increment(responses, start) ==
    IF DOMAIN responses = {} THEN start ELSE SetMax(DOMAIN responses)

_get_step_idx(responses, start) ==
    IF DOMAIN responses = {} THEN start ELSE SetMax(DOMAIN responses) + 1

\* self._response[step_idx] = response
record_response(responses, step_idx, response) ==
    [k \in DOMAIN responses \cup {step_idx} |->
        IF k = step_idx THEN response ELSE responses[k]]

\* pd.concat([a, b], ignore_index=True): the rows of a, then those of b, over
\* the union of the columns; new_events always has _group and step_idx
with_event_columns(row) ==
    IF "step_idx" \in DOMAIN row THEN row
    ELSE [USER_ID |-> row.USER_ID, ITEM_ID |-> row.ITEM_ID, TIMESTAMP |-> row.TIMESTAMP,
          VALUE |-> row.VALUE, _group |-> NaN, step_idx |-> NaN]

pd_concat(a, b) ==
    [k \in DOMAIN a |-> with_event_columns(a[k])] \o b

\* faulty variant of _update_events: the new events are put before the log
update_events_new_first(events, response, step_idx, now) ==
    pd_concat(parse_response(response, step_idx, TRUE, now), events)

\* faulty variant of _update_events: the events are tagged with the next index
update_events_next_idx(events, response, step_idx, now) ==
    pd_concat(events, parse_response(response, step_idx + 1, TRUE, now))

_update_events(events, response, step_idx, now) ==
    pd_concat(events, parse_response(response, step_idx, TRUE, now))

\* faulty variant of events_after_step: appends whether recording or not
events_after_step_always(rec, events, response, step_idx, now) ==
    _update_events(events, response, step_idx, now)

\* if self.recording: self._update_events(response, step_idx)
events_after_step(rec, events, response, step_idx, now) ==
    IF rec THEN _update_events(events, response, step_idx, now) ELSE events

(***************************************************************************)
(* _sanitize_inputs(event_df, user_df, item_df, clear_future_events)       *)
(*                                                                         *)
(* The event_df argument is [is_none, has_VALUE, rows]: None, or a table   *)
(* with or without a VALUE column.  A user row carries _hist_items,        *)
(* _hist_ts and _hist_values (parallel) and _hist_len.                     *)
(* clear_future_events is "None", "True" or "False".                       *)
(***************************************************************************)
user_index(users) == [k \in DOMAIN users |-> users[k].USER_ID]

is_unique(index) == \A a, b \in DOMAIN index : a # b => index[a] # index[b]

\* lines 25-30: the event log rebuilt from the users' stored histories
events_from_history(users) ==
    LET user_non_empty == boolean_mask(users, [k \in DOMAIN users |-> users[k]._hist_len > 0])
    IN Flatten([k \in DOMAIN user_non_empty |->
           [n \in DOMAIN user_non_empty[k]._hist_items |->
               [USER_ID |-> user_non_empty[k].USER_ID,
                ITEM_ID |-> user_non_empty[k]._hist_items[n],
                TIMESTAMP |-> user_non_empty[k]._hist_ts[n],
                VALUE |-> user_non_empty[k]._hist_values[n]]]])

\* the table the checks run on, and whether it has a VALUE column
supplied_events(event_arg, users) ==
    IF event_arg.is_none THEN events_from_history(users) ELSE event_arg.rows

\* event_df.assign(VALUE=1) when there is no VALUE column
with_VALUE(event_arg, rows) ==
    IF event_arg.is_none \/ event_arg.has_VALUE THEN rows
    ELSE [k \in DOMAIN rows |->
             [USER_ID |-> rows[k].USER_ID, ITEM_ID |-> rows[k].ITEM_ID,
              TIMESTAMP |-> rows[k].TIMESTAMP, VALUE |-> 1]]

\* faulty variant of timestamps_before: a TIMESTAMP equal to the wall clock passes
timestamps_before_or_at(rows, now) ==
    /\ rows # <<>>
    /\ SetMax({rows[k].TIMESTAMP : k \in DOMAIN rows}) <= now

\* assert event_df['TIMESTAMP'].max() < time.time(); the max of no rows is nan
timestamps_before(rows, now) ==
    /\ rows # <<>>
    /\ SetMax({rows[k].TIMESTAMP : k \in DOMAIN rows}) < now

\* faulty variant of known_events: the item is not looked up
known_events_by_user_only(rows, users, items) ==
    boolean_mask(rows, [k \in DOMAIN rows |-> rows[k].USER_ID \in Range(user_index(users))])

\* event_df[event_df['USER_ID'].isin(user_df.index) & event_df['ITEM_ID'].isin(item_df.index)]
known_events(rows, users, items) ==
    boolean_mask(rows, [k \in DOMAIN rows |->
                           rows[k].USER_ID \in Range(user_index(users))
                           /\ rows[k].ITEM_ID \in Range(items)])

\* user_df.groupby(level=0).first()[['TEST_START_TIME']] joined on USER_ID
test_start_time_of(users, u) ==
    users[CHOOSE k \in DOMAIN users :
              users[k].USER_ID = u /\ \A j \in 1..(k - 1) : users[j].USER_ID # u].TEST_START_TIME

\* faulty variant of past_events: TIMESTAMP = TEST_START_TIME counts as past
past_events_keeping_equal(rows, users) ==
    boolean_mask(rows, [k \in DOMAIN rows |->
        rows[k].TIMESTAMP <= test_start_time_of(users, rows[k].USER_ID)])

\* .query("TIMESTAMP < TEST_START_TIME")
past_events(rows, users) ==
    boolean_mask(rows, [k \in DOMAIN rows |->
        rows[k].TIMESTAMP < test_start_time_of(users, rows[k].USER_ID)])

\* faulty variant of _sanitize_inputs: the wall-clock assertion is made on the
\* rows left after the unknown users and items are filtered out
sanitize_inputs_filtering_first(event_arg, users, items, clear_future_events, now) ==
    LET rows == supplied_events(event_arg, users)
        known == known_events(with_VALUE(event_arg, rows), users, items)
        past == past_events(known, users)
        future_detected == Len(past) < Len(known)
    IN IF ~is_unique(user_index(users)) \/ ~timestamps_before(known, now)
       THEN [raised |-> TRUE, events |-> <<>>, warned |-> FALSE, reported |-> FALSE]
       ELSE [raised |-> FALSE,
             events |-> IF future_detected /\ clear_future_events = "True"
                        THEN past ELSE known,
             warned |-> future_detected /\ clear_future_events = "None",
             reported |-> Len(known) < Len(rows)]

_sanitize_inputs(event_arg, users, items, clear_future_events, now) ==
    LET rows == supplied_events(event_arg, users)
        known == known_events(with_VALUE(event_arg, rows), users, items)
        past == past_events(known, users)
        future_detected == Len(past) < Len(known)
    IN IF ~is_unique(user_index(users)) \/ ~timestamps_before(rows, now)
       THEN [raised |-> TRUE, events |-> <<>>, warned |-> FALSE, reported |-> FALSE]
       ELSE [raised |-> FALSE,
             events |-> IF future_detected /\ clear_future_events = "True"
                        THEN past ELSE known,
             warned |-> future_detected /\ clear_future_events = "None",
             reported |-> Len(known) < Len(rows)]

(***************************************************************************)
(* The environment: construction and step()                                *)
(***************************************************************************)
plain_user(u, tst) ==
    [USER_ID |-> u, TEST_START_TIME |-> tst,
     _hist_items |-> <<>>, _hist_ts |-> <<>>, _hist_values |-> <<>>, _hist_len |-> 0]

event(u, i, ts, v) == [USER_ID |-> u, ITEM_ID |-> i, TIMESTAMP |-> ts, VALUE |-> v]

table(rows) == [is_none |-> FALSE, has_VALUE |-> TRUE, rows |-> rows]

\* wall-clock time at construction
ConstructionTime == T(3)

EnvItems == <<"i1", "i2", "Other", "i3", "i4">>

\* constructor arguments: users, supplied events, clear_future_events
EnvInputs ==
    { [users |-> <<plain_user("u1", T(2)), plain_user("u2", T(2))>>,
       events |-> table(<<event("u1", "i1", T(1), 1)>>),
       clear_future_events |-> "None"],
      [users |-> <<plain_user("u1", T(2)), plain_user("u2", T(2))>>,
       events |-> table(<<event("u1", "i1", T(1), 1), event("u2", "i2", T(2), 1),
                          event("u1", "ix", T(1), 0)>>),
       clear_future_events |-> "False"],
      [users |-> <<[USER_ID |-> "u1", TEST_START_TIME |-> T(2),
                    _hist_items |-> <<"i3", "i4">>, _hist_ts |-> <<T(1), T(2)>>,
                    _hist_values |-> <<1, 1>>, _hist_len |-> 2],
                   plain_user("u2", T(2))>>,
       events |-> [is_none |-> TRUE, has_VALUE |-> FALSE, rows |-> <<>>],
       clear_future_events |-> "True"] }

\* self.user_df.set_index("TEST_START_TIME", append=True)
default_test_requests(users) ==
    [k \in DOMAIN users |->
        [USER_ID |-> users[k].USER_ID, TEST_START_TIME |-> users[k].TEST_START_TIME]]

\* Env.__post_init__ that completes: every assertion holds
EnvStartWith(sample_sizes) ==
    /\ \E in \in EnvInputs :
          LET sanitized == _sanitize_inputs(in.events, in.users, EnvItems,
                                            in.clear_future_events, ConstructionTime)
          IN /\ ~sanitized.raised
             /\ user_df = in.users
             /\ event_df = sanitized.events
             /\ init_event_df = sanitized.events
             /\ test_requests \in {default_test_requests(in.users),
                                   SubSeq(default_test_requests(in.users), 1, 1)}
    /\ item_df = EnvItems
    /\ sample_size \in sample_sizes
    /\ recording \in BOOLEAN
    /\ recording => is_unique(user_index(test_requests))
    /\ _start_step_idx \in {0, 1}
    /\ _response = <<>>
    /\ _reward_by_policy = <<>>
    /\ clock = ConstructionTime
    /\ snapshots = <<>>
    /\ step_log = <<>>

\* sample_size is 1 or 2 for every policy
EnvStart == EnvStartWith({1, 2})

\* an environment whose _invoke is overridden by a scorer that answers
Init ==
    /\ EnvStart
    /\ scorer \in Scorers
    /\ latency \in {0, T(1)}
    /\ call = "env"
    /\ result = "env"

PolicyLists == {<<p>> : p \in Policies} \cup {<<p, q>> : p, q \in Policies}

\* Env.step(*policies) with a scorer that returns a response
Step(policies) ==
    LET step_idx == _get_step_idx(_response, _start_step_idx)
        D == _create_testing_dataset(user_df, item_df, event_df, test_requests)
    IN /\ Len(step_log) < MaxSteps
       /\ \E request \in _create_request(D, policies, sample_size, clock) :
             LET response == _invoke(scorer, request, D, step_idx)
             IN /\ _response' = record_response(_response, step_idx, response)
                /\ event_df' = events_after_step(recording, event_df, response, step_idx,
                                                 clock + latency)
                /\ _reward_by_policy' = Append(_reward_by_policy, _evaluate_response(response))
       /\ clock' = clock + latency
       /\ snapshots' = Append(snapshots, D.event_df)
       /\ step_log' = Append(step_log, step_idx)
       /\ UNCHANGED <<user_df, item_df, test_requests, sample_size, recording,
                      _start_step_idx, scorer, latency, init_event_df, call, result>>

Next == \E policies \in PolicyLists : Step(policies)

Spec == Init /\ [][Next]_vars

(***************************************************************************)
(* Properties of the environment                                           *)
(***************************************************************************)
core(row) == [USER_ID |-> row.USER_ID, ITEM_ID |-> row.ITEM_ID,
              TIMESTAMP |-> row.TIMESTAMP, VALUE |-> row.VALUE]

\* the events a response stands for: one per candidate, in row and candidate order
events_of(response, idx) ==
    Flatten([r \in DOMAIN response |->
        [n \in DOMAIN response[r].cand_items |->
            [USER_ID |-> response[r].USER_ID,
             ITEM_ID |-> response[r].cand_items[n],
             TIMESTAMP |-> response[r].request_time,
             VALUE |-> response[r].multi_label[n],
             _group |-> response[r]._group[n],
             step_idx |-> idx]]])

\* C1: the k-th step() call uses the start index when no response is recorded
\* yet and otherwise one plus the largest index recorded, so that N calls
\* record exactly start, start+1, ..., start+N-1.
C1_StepIndices ==
    /\ \A k \in DOMAIN step_log :
          /\ step_log[k] = IF k = 1 THEN _start_step_idx
                           ELSE SetMax({step_log[j] : j \in 1..(k - 1)}) + 1
          /\ step_log[k] = _start_step_idx + k - 1
    /\ DOMAIN _response = {_start_step_idx + k - 1 : k \in 1..Len(step_log)}

C1_Witness == Len(step_log) = MaxSteps /\ _start_step_idx = 1

\* C2: with recording disabled the event log stays the sanitized initial log
\* whatever steps are taken, while each call still uses the next step index,
\* records its response and appends its reward.
C2_NoRecordingNoAppend ==
    ~recording =>
        /\ event_df = init_event_df
        /\ \A k \in DOMAIN step_log :
              /\ step_log[k] = _start_step_idx + k - 1
              /\ step_log[k] \in DOMAIN _response
              /\ _response[step_log[k]] # <<>>
        /\ Len(_reward_by_policy) = Len(step_log)
        /\ \A k \in DOMAIN _reward_by_policy : DOMAIN _reward_by_policy[k] # {}

C2_Witness == ~recording /\ Len(step_log) = MaxSteps /\ init_event_df # <<>>

\* C3: every step leaves the rows the event log held in place: the old log is a
\* prefix of the new one, with USER_ID, ITEM_ID, TIMESTAMP and VALUE unchanged.
C3_AppendOnly ==
    [][/\ Len(event_df) <= Len(event_df')
       /\ \A k \in DOMAIN event_df : core(event_df'[k]) = core(event_df[k])]_vars

C3_Witness ==
    /\ Len(step_log) = MaxSteps
    /\ init_event_df # <<>>
    /\ Len(event_df) > Len(snapshots[MaxSteps])
    /\ Len(snapshots[MaxSteps]) > Len(init_event_df)

\* C4: with recording enabled, the log the k-th step builds its request from is
\* the sanitized initial log followed by the events of the responses of the
\* steps before it, in step order, each tagged with its step's index; it holds
\* no event of the k-th step itself.
C4_CausalSnapshots ==
    recording =>
        \A k \in DOMAIN snapshots :
            LET earlier == Flatten([j \in 1..(k - 1) |->
                               events_of(_response[step_log[j]], step_log[j])])
                snap == snapshots[k]
                n0 == Len(init_event_df)
            IN /\ Len(snap) = n0 + Len(earlier)
               /\ \A m \in 1..n0 : core(snap[m]) = core(init_event_df[m])
               /\ \A m \in 1..Len(earlier) : snap[n0 + m] = earlier[m]
               /\ \A m \in DOMAIN snap :
                     "step_idx" \in DOMAIN snap[m] => snap[m].step_idx # step_log[k]

\* the third step of a recording environment: its snapshot holds the initial
\* log, then the events of the first step, then those of the second
C4_Witness ==
    /\ recording
    /\ Len(snapshots) = 3
    /\ init_event_df # <<>>
    /\ Len(snapshots[3]) > Len(snapshots[2])
    /\ Len(snapshots[2]) > Len(init_event_df)
    /\ snapshots[3][Len(snapshots[2])].step_idx = step_log[1]
    /\ snapshots[3][Len(snapshots[3])].step_idx = step_log[2]

(***************************************************************************)
(* parse_response and _evaluate_response on their own                      *)
(*                                                                         *)
(* A response is drawn, parse_response is applied to it twice with the     *)
(* same arguments while the wall clock may advance in between, and         *)
(* _evaluate_response is applied to it.                                    *)
(***************************************************************************)
\* the environment's variables, unused by the checks of single functions
NoEnv ==
    /\ user_df = <<>> /\ item_df = <<>> /\ event_df = <<>> /\ test_requests = <<>>
    /\ sample_size = 0 /\ recording = FALSE /\ _start_step_idx = 0
    /\ _response = <<>> /\ _reward_by_policy = <<>> /\ scorer = "none" /\ latency = 0
    /\ init_event_df = <<>> /\ snapshots = <<>> /\ step_log = <<>>

CandPool == <<"i1", "i2", "i3", "i4">>

cand_items_of(offset, n) == [k \in 1..n |-> CandPool[((k - 1 + offset) % Len(CandPool)) + 1]]

LabelPatterns(n) ==
    {[k \in 1..n |-> 0], [k \in 1..n |-> 1], [k \in 1..n |-> k % 2]}

GroupPatterns(n) ==
    {[k \in 1..n |-> 0], [k \in 1..n |-> (k - 1) % 2],
     [k \in 1..n |-> IF k = n THEN 0 - 1 ELSE 0]}

\* request times: before the first call, between the first call and the last
\* tick, and a millisecond count far after both
RequestTimes == {T(2), T(4), T(3000)}

RequestTimePairs ==
    {<<t, t>> : t \in RequestTimes} \cup {<<T(2), T(3000)>>, <<T(3000), T(2)>>, <<T(2), T(4)>>}

response_row(u, offset, n, labels, groups, t) ==
    [USER_ID |-> u, TEST_START_TIME |-> T(2), cand_items |-> cand_items_of(offset, n),
     _group |-> groups, multi_label |-> labels, request_time |-> t]

RowShapes == {[n |-> n, labels |-> l, groups |-> g] :
                 n \in 0..MaxCand, l \in UNION {LabelPatterns(m) : m \in 0..MaxCand},
                 g \in UNION {GroupPatterns(m) : m \in 0..MaxCand}}

EqualLengthShapes == {sh \in RowShapes : Len(sh.labels) = sh.n /\ Len(sh.groups) = sh.n}

\* the response of the reward example of the specification
ExampleResponse ==
    <<response_row("u1", 0, 3, <<1, 0, 1>>, <<0, 0, 1>>, T(2)),
      response_row("u2", 2, 3, <<0, 0, 1>>, <<0, 1, 1>>, T(2))>>

\* responses of three users with one candidate each: tied and distinct request times
RequestTimeTriples ==
    {<<T(2), T(2), T(4)>>, <<T(4), T(2), T(2)>>, <<T(4), T(2), T(4)>>, <<T(4), T(3000), T(2)>>}

ThreeRowResponses ==
    {<<response_row("u1", 0, 1, <<1>>, <<0>>, tt[1]),
       response_row("u2", 1, 1, <<0>>, <<0>>, tt[2]),
       response_row("u3", 2, 1, <<1>>, <<1>>, tt[3])>> : tt \in RequestTimeTriples}

Responses ==
    {<<response_row("u1", 0, sh.n, sh.labels, sh.groups, t)>> :
         sh \in EqualLengthShapes, t \in RequestTimes}
    \cup {<<response_row("u1", 0, a.n, a.labels, a.groups, tt[1]),
            response_row("u2", 2, b.n, b.labels, b.groups, tt[2])>> :
              a \in EqualLengthShapes, b \in EqualLengthShapes, tt \in RequestTimePairs}
    \cup {ExampleResponse}
    \cup ThreeRowResponses

\* wall-clock time of the first parse_response call
ParseTime == T(3)

MaxTicks == 1       \* time units the clock may advance between the two calls

InitParse ==
    /\ NoEnv
    /\ clock = ParseTime
    /\ \E response \in Responses, step_idx \in {None, 1}, infer_time_unit \in BOOLEAN :
          call = [given |-> response, response |-> response,
                  step_idx |-> step_idx, infer_time_unit |-> infer_time_unit]
    /\ result = [parsed |-> <<>>, reward |-> <<>>]

\* one call parse_response(response, step_idx, infer_time_unit) at the current time
ParseResponse ==
    /\ Len(result.parsed) < 2
    /\ result.reward = <<>>
    /\ result' = [result EXCEPT !.parsed = Append(@,
           IF parse_response_raises(call.response)
           THEN [raised |-> TRUE, events |-> <<>>, at |-> clock]
           ELSE [raised |-> FALSE, at |-> clock,
                 events |-> parse_response(call.response, call.step_idx,
                                           call.infer_time_unit, clock)])]
    /\ call' = [call EXCEPT !.response = response_after_parse(call.response, call.step_idx)]
    /\ UNCHANGED clock
    /\ UNCHANGED envVars

\* time passes between the two calls
Tick ==
    /\ Len(result.parsed) = 1
    /\ clock < ParseTime + T(MaxTicks)
    /\ clock' = clock + T(1)
    /\ UNCHANGED <<call, result>>
    /\ UNCHANGED envVars

\* one call _evaluate_response(response)
EvaluateResponse ==
    /\ result.parsed = <<>>
    /\ result.reward = <<>>
    /\ result' = [result EXCEPT !.reward =
           IF evaluate_response_raises(call.response)
           THEN <<[raised |-> TRUE, out |-> <<>>]>>
           ELSE <<[raised |-> FALSE, out |-> _evaluate_response(call.response)]>>]
    /\ UNCHANGED <<call, clock>>
    /\ UNCHANGED envVars

NextParse == ParseResponse \/ Tick \/ EvaluateResponse

SpecParse == InitParse /\ [][NextParse]_vars

(***************************************************************************)
(* Properties of parse_response and _evaluate_response                     *)
(***************************************************************************)
\* the response row an event was exploded from (USER_ID is the row's index)
row_of(response, e) == response[CHOOSE k \in DOMAIN response : response[k].USER_ID = e.USER_ID]

without_TIMESTAMP(events) ==
    [n \in DOMAIN events |->
        [USER_ID |-> events[n].USER_ID, ITEM_ID |-> events[n].ITEM_ID,
         VALUE |-> events[n].VALUE, _group |-> events[n]._group,
         step_idx |-> events[n].step_idx]]

max_request_time(response) == SetMax({response[k].request_time : k \in DOMAIN response})

\* C5: parse_response yields one event per candidate-label pair: as many events
\* as there are candidates in the response, the n-th event of a row carrying
\* the row's user and step index and the n-th candidate, label and group tag.
C5_OneEventPerCandidate ==
    \A c \in DOMAIN result.parsed :
        ~result.parsed[c].raised =>
            LET response == call.given
                idx == IF call.step_idx = None THEN dense_rank_minus_1(response)
                       ELSE [k \in DOMAIN response |-> call.step_idx]
                events == result.parsed[c].events
            IN /\ Len(events) = SumSeq([k \in DOMAIN response |-> Len(response[k].cand_items)])
               /\ without_TIMESTAMP(events) =
                      Flatten([k \in DOMAIN response |->
                          [n \in DOMAIN response[k].cand_items |->
                              [USER_ID |-> response[k].USER_ID,
                               ITEM_ID |-> response[k].cand_items[n],
                               VALUE |-> response[k].multi_label[n],
                               _group |-> response[k]._group[n],
                               step_idx |-> idx[k]]]])

\* C6 as stated: every event carries the request_time of the row it was
\* exploded from.
C6_TimestampIsRequestTime ==
    \A c \in DOMAIN result.parsed :
        \A n \in DOMAIN result.parsed[c].events :
            LET e == result.parsed[c].events[n]
            IN e.TIMESTAMP = row_of(call.given, e).request_time

\* C6 amended: every event carries the request_time t of its row, or t / 1000
\* when the time-unit fixup applies (infer_time_unit is on and the largest
\* request_time of the response is after the wall clock of the call); the events
\* exploded from one row share one TIMESTAMP.
C6_TimestampIsRequestTimeUpToFixup ==
    \A c \in DOMAIN result.parsed :
        LET p == result.parsed[c]
            fixup == call.infer_time_unit /\ max_request_time(call.given) > p.at
        IN \A n \in DOMAIN p.events :
              /\ p.events[n].TIMESTAMP =
                     IF fixup THEN row_of(call.given, p.events[n]).request_time \div Unit
                     ELSE row_of(call.given, p.events[n]).request_time
              /\ \A m \in DOMAIN p.events :
                     p.events[m].USER_ID = p.events[n].USER_ID =>
                         p.events[m].TIMESTAMP = p.events[n].TIMESTAMP

C6_Witness ==
    /\ Len(result.parsed) = 2
    /\ Len(call.given) = 2
    /\ call.given[1].request_time < result.parsed[1].at
    /\ call.given[2].request_time > result.parsed[2].at
    /\ Len(call.given[1].cand_items) = MaxCand
    /\ call.infer_time_unit
    /\ result.parsed[1].events[1].TIMESTAMP # call.given[1].request_time

\* C7 as stated: two calls with the same explicit step_idx return identical
\* events; without an explicit step_idx they return events identical apart from
\* step_idx; either way the response is left as it was.
C7_SameResultTwice ==
    Len(result.parsed) = 2 =>
        /\ result.parsed[1].raised = result.parsed[2].raised
        /\ call.step_idx # None => result.parsed[1].events = result.parsed[2].events
        /\ call.step_idx = None =>
               [n \in DOMAIN result.parsed[1].events |->
                   [result.parsed[1].events[n] EXCEPT !.step_idx = 0]]
               = [n \in DOMAIN result.parsed[2].events |->
                   [result.parsed[2].events[n] EXCEPT !.step_idx = 0]]
        /\ call.response = call.given

\* C7 amended: two calls with the same arguments, explicit step_idx or not,
\* return the same events up to TIMESTAMP and leave the response as it was; the
\* events are identical unless infer_time_unit is on and the wall clock reaches
\* the largest request_time between the calls, and then the first call's
\* timestamps are those of the second divided by 1000.
C7_SameResultTwiceUpToClock ==
    Len(result.parsed) = 2 =>
        LET first == result.parsed[1]
            second == result.parsed[2]
            crossed == /\ call.infer_time_unit
                       /\ first.at < max_request_time(call.given)
                       /\ max_request_time(call.given) <= second.at
        IN /\ first.raised = second.raised
           /\ without_TIMESTAMP(first.events) = without_TIMESTAMP(second.events)
           /\ ~crossed => first.events = second.events
           /\ crossed => \A n \in DOMAIN first.events :
                             first.events[n].TIMESTAMP = second.events[n].TIMESTAMP \div Unit
           /\ call.response = call.given

C7_Witness ==
    /\ Len(result.parsed) = 2
    /\ result.parsed[1].at < result.parsed[2].at
    /\ call.step_idx # None
    /\ Len(call.given) = 2
    /\ Len(result.parsed[1].events) = 2 * MaxCand
    /\ result.parsed[1].events = result.parsed[2].events
    /\ call.infer_time_unit
    /\ result.parsed[1].events[1].TIMESTAMP # call.given[1].request_time

\* the key _evaluate_response files a group tag under
tag_key(g) == CASE g = 0 - 1 -> "-1" [] g = 0 -> "0" [] g = 1 -> "1"

\* C8: the reward mapping has one key per distinct group tag of the response
\* (-1 included), the string form of the tag, and its value is the sum of the
\* labels at the tag's positions over the number of those positions; the
\* example of the specification evaluates to {'0': 1/3, '1': 2/3}.
C8_RewardPerGroup ==
    \A c \in DOMAIN result.reward :
        ~result.reward[c].raised =>
            LET response == call.given
                out == result.reward[c].out
                cells == UNION {{<<r, n>> : n \in DOMAIN response[r]._group} : r \in DOMAIN response}
                tags == {response[x[1]]._group[x[2]] : x \in cells}
                at(g) == {x \in cells : response[x[1]]._group[x[2]] = g}
                ones(g) == {x \in at(g) : response[x[1]].multi_label[x[2]] = 1}
            IN /\ \A x \in cells : response[x[1]].multi_label[x[2]] \in {0, 1}
               /\ DOMAIN out = {tag_key(g) : g \in tags}
               /\ \A g \in tags : /\ out[tag_key(g)].num = Cardinality(ones(g))
                                  /\ out[tag_key(g)].den = Cardinality(at(g))
               /\ response = ExampleResponse =>
                      /\ DOMAIN out = {"0", "1"}
                      /\ out["0"].num * 3 = out["0"].den * 1
                      /\ out["1"].num * 3 = out["1"].den * 2

C8_Witness ==
    /\ Len(result.reward) = 1
    /\ ~result.reward[1].raised
    /\ call.given = ExampleResponse

(***************************************************************************)
(* _sanitize_inputs on its own                                             *)
(***************************************************************************)
MaxEvents == 3      \* rows of a supplied event table

SanitizeItems == <<"i1", "i2">>

SanitizeUsers == <<plain_user("u1", T(2)), plain_user("u2", T(1))>>

DuplicateUsers == <<plain_user("u1", T(2)), plain_user("u1", T(1))>>

hist_user(u, tst, items, ts, values) ==
    [USER_ID |-> u, TEST_START_TIME |-> tst, _hist_items |-> items, _hist_ts |-> ts,
     _hist_values |-> values, _hist_len |-> Len(items)]

HistoryUsers ==
    { <<hist_user("u1", T(2), <<"i1", "i2">>, <<T(1), T(2)>>, <<1, 0>>), plain_user("u2", T(1))>>,
      <<hist_user("u1", T(2), <<"i1", "ix">>, <<T(1), T(1)>>, <<1, 1>>),
        hist_user("u2", T(1), <<"i2">>, <<T(0)>>, <<0>>)>>,
      <<hist_user("u1", T(2), <<"i1">>, <<T(3)>>, <<1>>), plain_user("u2", T(1))>>,
      <<plain_user("u1", T(2)), plain_user("u2", T(1))>> }

\* rows a caller may supply: past and future events of known users, an unknown
\* user, an unknown item, and a timestamp that is not before the wall clock
EventChoices ==
    { event("u1", "i1", T(1), 1), event("u1", "i2", T(2), 0), event("u2", "i1", T(2), 1),
      event("ux", "i1", T(1), 1), event("u1", "ix", T(2), 1), event("u2", "i2", T(3), 0),
      event("ux", "ix", T(4), 1) }

without_VALUE(rows) ==
    [k \in DOMAIN rows |-> [USER_ID |-> rows[k].USER_ID, ITEM_ID |-> rows[k].ITEM_ID,
                            TIMESTAMP |-> rows[k].TIMESTAMP]]

EventTables ==
    UNION {[1..n -> EventChoices] : n \in 0..MaxEvents}

InitSanitize ==
    /\ NoEnv
    /\ clock = ConstructionTime
    /\ \/ \E rows \in EventTables, users \in {SanitizeUsers, DuplicateUsers},
             clear_future_events \in {"None", "True", "False"}, has_VALUE \in BOOLEAN :
             call = [event_df |-> [is_none |-> FALSE, has_VALUE |-> has_VALUE,
                                   rows |-> IF has_VALUE THEN rows ELSE without_VALUE(rows)],
                     user_df |-> users, item_df |-> SanitizeItems,
                     clear_future_events |-> clear_future_events]
       \/ \E users \in HistoryUsers, clear_future_events \in {"None", "True", "False"} :
             call = [event_df |-> [is_none |-> TRUE, has_VALUE |-> FALSE, rows |-> <<>>],
                     user_df |-> users, item_df |-> SanitizeItems,
                     clear_future_events |-> clear_future_events]
    /\ result = <<>>

\* one call _sanitize_inputs(event_df, user_df, item_df, clear_future_events)
Sanitize ==
    /\ result = <<>>
    /\ result' = <<_sanitize_inputs(call.event_df, call.user_df, call.item_df,
                                    call.clear_future_events, clock)>>
    /\ UNCHANGED <<call, clock>>
    /\ UNCHANGED envVars

NextSanitize == Sanitize

SpecSanitize == InitSanitize /\ [][NextSanitize]_vars

(***************************************************************************)
(* Properties of _sanitize_inputs                                          *)
(***************************************************************************)
\* the rows the checks of a call run on, as the caller supplied them
supplied_rows == supplied_events(call.event_df, call.user_df)

is_known(row) ==
    /\ \E k \in DOMAIN call.user_df : call.user_df[k].USER_ID = row.USER_ID
    /\ \E k \in DOMAIN call.item_df : call.item_df[k] = row.ITEM_ID

\* TIMESTAMP >= the TEST_START_TIME of the row's user
is_future(row) ==
    \E k \in DOMAIN call.user_df :
        /\ call.user_df[k].USER_ID = row.USER_ID
        /\ row.TIMESTAMP >= call.user_df[k].TEST_START_TIME

\* a returned row is a supplied row: the same USER_ID, ITEM_ID and TIMESTAMP,
\* and the same VALUE (1 when the table has no VALUE column)
same_row(out, in) ==
    /\ out.USER_ID = in.USER_ID /\ out.ITEM_ID = in.ITEM_ID /\ out.TIMESTAMP = in.TIMESTAMP
    /\ out.VALUE = IF "VALUE" \in DOMAIN in THEN in.VALUE ELSE 1

same_rows(out, in) ==
    /\ Len(out) = Len(in)
    /\ \A k \in DOMAIN out : same_row(out[k], in[k])

known_rows == boolean_mask(supplied_rows, [k \in DOMAIN supplied_rows |-> is_known(supplied_rows[k])])

known_past_rows == boolean_mask(known_rows, [k \in DOMAIN known_rows |-> ~is_future(known_rows[k])])

\* C9 as stated: a call that passes the wall-clock check returns exactly the
\* supplied rows with a known user and a known item, unchanged and in order.
C9_DropsExactlyUnknown ==
    \A c \in DOMAIN result : ~result[c].raised => same_rows(result[c].events, known_rows)

\* C9 amended: a call that passes the wall-clock check with clear_future_events
\* None or False returns exactly the supplied rows with a known user and a known
\* item, unchanged and in order (VALUE filled with 1 when the column is
\* missing); with clear_future_events True it returns those of them that are
\* not future.
C9_DropsExactlyUnknownUnlessClearing ==
    \A c \in DOMAIN result :
        ~result[c].raised =>
            /\ call.clear_future_events # "True" => same_rows(result[c].events, known_rows)
            /\ call.clear_future_events = "True" => same_rows(result[c].events, known_past_rows)
            /\ result[c].reported <=> Len(known_rows) < Len(supplied_rows)

C9_Witness ==
    /\ result # <<>>
    /\ ~result[1].raised
    /\ call.clear_future_events = "None"
    /\ ~call.event_df.is_none
    /\ Len(call.event_df.rows) = MaxEvents
    /\ Len(result[1].events) = 1
    /\ \E k \in DOMAIN call.event_df.rows : call.event_df.rows[k].ITEM_ID = "ix"
    /\ call.event_df.rows[1].USER_ID = "ux"

one_past_one_future ==
    /\ ~call.event_df.is_none
    /\ Len(call.event_df.rows) = 2
    /\ call.event_df.rows[1].USER_ID = call.event_df.rows[2].USER_ID
    /\ is_known(call.event_df.rows[1]) /\ is_known(call.event_df.rows[2])
    /\ is_future(call.event_df.rows[1]) # is_future(call.event_df.rows[2])

\* C10: an event is future when its TIMESTAMP is >= its user's TEST_START_TIME.
\* clear_future_events True returns the known events that are not future;
\* False returns all known events without a warning; None returns all known
\* events and warns exactly when a known event is future.  One past and one
\* future event of one user give logs of length 1, 2 and 2.
C10_FutureEventPolicy ==
    \A c \in DOMAIN result :
        ~result[c].raised =>
            LET any_future == \E k \in DOMAIN known_rows : is_future(known_rows[k])
            IN /\ call.clear_future_events = "True" =>
                     /\ same_rows(result[c].events, known_past_rows)
                     /\ ~result[c].warned
               /\ call.clear_future_events = "False" =>
                     /\ same_rows(result[c].events, known_rows)
                     /\ ~result[c].warned
               /\ call.clear_future_events = "None" =>
                     /\ same_rows(result[c].events, known_rows)
                     /\ result[c].warned <=> any_future
               /\ one_past_one_future =>
                     Len(result[c].events) = IF call.clear_future_events = "True" THEN 1 ELSE 2

C10_Witness ==
    /\ result # <<>>
    /\ ~result[1].raised
    /\ one_past_one_future
    /\ call.clear_future_events = "True"
    /\ call.event_df.rows[2].TIMESTAMP = T(2)
    /\ call.event_df.rows[2].USER_ID = "u1"
    /\ Len(result[1].events) = 1

\* C11: a call whose user table index holds a user id twice, or whose supplied
\* events hold a row with TIMESTAMP >= the wall clock, fails: it raises and
\* returns no event log.
C11_IngestionViolationsFatal ==
    \A c \in DOMAIN result :
        (\/ \E a, b \in DOMAIN call.user_df :
                a # b /\ call.user_df[a].USER_ID = call.user_df[b].USER_ID
         \/ \E k \in DOMAIN supplied_rows : supplied_rows[k].TIMESTAMP >= clock)
        => (result[c].raised /\ result[c].events = <<>>)

\* a call with unique users, one of whose rows is stamped with the wall clock
C11_Witness ==
    /\ result # <<>>
    /\ result[1].raised
    /\ call.user_df = SanitizeUsers
    /\ Len(supplied_rows) = 2
    /\ supplied_rows[1].TIMESTAMP < clock
    /\ supplied_rows[2].TIMESTAMP = clock

(***************************************************************************)
(* Env.__post_init__ on its own: construction that may fail                *)
(*                                                                         *)
(* The test_requests argument is [kind, rows] with kind "None", "table" or *)
(* "callable".  The outcome is [raised, error, event_df, test_requests].   *)
(***************************************************************************)
inf == 999999999    \* float("inf"), the default horizon

\* lines 84-85: the default is one request per user, at its TEST_START_TIME
test_requests_or_default(arg, users) ==
    IF arg.kind = "None" THEN [kind |-> "table", rows |-> default_test_requests(users)]
    ELSE arg

\* faulty variant of recording_preconditions: the horizon is not looked at
recording_preconditions_without_horizon(rec, requests, horizon) ==
    rec => is_unique(user_index(requests.rows))

\* lines 90-93: the two assertions made when recording is on
recording_preconditions(rec, requests, horizon) ==
    rec => (is_unique(user_index(requests.rows)) /\ horizon = inf)

\* faulty variant of __post_init__: a callable test_requests is not looked at
post_init_accepting_callable(args, now) ==
    LET sanitized == _sanitize_inputs(args.event_df, args.user_df, args.item_df,
                                      args.clear_future_events, now)
        requests == test_requests_or_default(args.test_requests, args.user_df)
        failed(error) == [raised |-> TRUE, error |-> error, event_df |-> <<>>,
                          test_requests |-> [kind |-> "None", rows |-> <<>>]]
    IN IF sanitized.raised THEN failed("AssertionError")
       ELSE IF ~recording_preconditions(args.recording, requests, args.horizon)
       THEN failed("AssertionError")
       ELSE [raised |-> FALSE, error |-> "", event_df |-> sanitized.events,
             test_requests |-> requests]

__post_init__(args, now) ==
    LET sanitized == _sanitize_inputs(args.event_df, args.user_df, args.item_df,
                                      args.clear_future_events, now)
        requests == test_requests_or_default(args.test_requests, args.user_df)
        failed(error) == [raised |-> TRUE, error |-> error, event_df |-> <<>>,
                          test_requests |-> [kind |-> "None", rows |-> <<>>]]
    IN IF sanitized.raised THEN failed("AssertionError")
       ELSE IF args.recording /\ requests.kind = "callable" THEN failed("AttributeError")
       ELSE IF ~recording_preconditions(args.recording, requests, args.horizon)
       THEN failed("AssertionError")
       ELSE [raised |-> FALSE, error |-> "", event_df |-> sanitized.events,
             test_requests |-> requests]

ConstructUsers == <<plain_user("u1", T(2)), plain_user("u2", T(2))>>

\* supplied logs: one that passes ingestion, one with a row stamped with the
\* wall clock, one with rows of unknown users and items
ConstructEvents ==
    { table(<<event("u1", "i1", T(1), 1)>>),
      table(<<event("u1", "i1", T(1), 1), event("u2", "i2", T(3), 1)>>),
      table(<<event("ux", "i1", T(1), 1), event("u2", "ix", T(2), 0)>>) }

\* test_requests arguments: the default, every user once, one user twice, one
\* user only, and a function of (user_df, event_df)
ConstructRequests ==
    { [kind |-> "None", rows |-> <<>>],
      [kind |-> "table", rows |-> default_test_requests(ConstructUsers)],
      [kind |-> "table", rows |-> <<[USER_ID |-> "u1", TEST_START_TIME |-> T(1)],
                                    [USER_ID |-> "u1", TEST_START_TIME |-> T(2)]>>],
      [kind |-> "table", rows |-> <<[USER_ID |-> "u2", TEST_START_TIME |-> T(2)]>>],
      [kind |-> "callable", rows |-> <<>>] }

Horizons == {inf, T(1)}

InitConstruct ==
    /\ NoEnv
    /\ clock = ConstructionTime
    /\ \E events \in ConstructEvents, requests \in ConstructRequests, rec \in BOOLEAN,
          horizon \in Horizons, clear_future_events \in {"None", "True"} :
          call = [user_df |-> ConstructUsers, item_df |-> EnvItems, event_df |-> events,
                  clear_future_events |-> clear_future_events, test_requests |-> requests,
                  recording |-> rec, horizon |-> horizon]
    /\ result = <<>>

\* Env(user_df, item_df, event_df, ...): the generated __init__ runs __post_init__
Construct ==
    /\ result = <<>>
    /\ result' = <<__post_init__(call, clock)>>
    /\ UNCHANGED <<call, clock>>
    /\ UNCHANGED envVars

NextConstruct == Construct

SpecConstruct == InitConstruct /\ [][NextConstruct]_vars

(***************************************************************************)
(* Properties of construction                                              *)
(***************************************************************************)
\* the supplied log passes the ingestion assertions
ingestion_passes ==
    /\ call.event_df.rows # <<>>
    /\ \A k \in DOMAIN call.event_df.rows : call.event_df.rows[k].TIMESTAMP < clock
    /\ \A a, b \in DOMAIN call.user_df :
          a # b => call.user_df[a].USER_ID # call.user_df[b].USER_ID

\* the test requests name one user twice
repeats_a_user ==
    \E a, b \in DOMAIN call.test_requests.rows :
        a # b /\ call.test_requests.rows[a].USER_ID = call.test_requests.rows[b].USER_ID

\* C12: with recording on, construction fails when test_requests (a table, or
\* the default) holds a USER_ID more than once or when horizon is not
\* infinite; with recording off neither is checked.  For a log that passes
\* ingestion, construction fails exactly when recording is on and one of the
\* two conditions holds.
C12_RecordingPreconditions ==
    \A c \in DOMAIN result :
        call.test_requests.kind # "callable" =>
            /\ (call.recording /\ (repeats_a_user \/ call.horizon # inf)) => result[c].raised
            /\ (~call.recording /\ ingestion_passes) => ~result[c].raised
            /\ (call.recording /\ ingestion_passes /\ ~repeats_a_user /\ call.horizon = inf)
                   => ~result[c].raised

\* recording is on and the only violation is a finite horizon
C12_Witness ==
    /\ result # <<>>
    /\ result[1].raised
    /\ result[1].error = "AssertionError"
    /\ call.recording
    /\ ingestion_passes
    /\ ~repeats_a_user
    /\ call.test_requests.kind = "table"
    /\ call.horizon = T(1)

(***************************************************************************)
(* The base environment: _invoke is not overridden                         *)
(*                                                                         *)
(* result holds, per step() call, the exception the call ended with.       *)
(***************************************************************************)
\* Env._invoke: the exception object is returned, not raised
NotImplementedError == [exception |-> "NotImplementedError",
                        args |-> <<"return request + multi_label column">>]

base_invoke(request, D, step_idx) == NotImplementedError

\* what step() does with the object after storing it: with recording on,
\* parse_response calls response.assign (line 231); with recording off, the
\* metrics take len(response) (line 131)
error_after_invoke(rec) ==
    IF rec THEN [raised |-> TRUE, error |-> "AttributeError", raised_by |-> "parse_response"]
    ELSE [raised |-> TRUE, error |-> "TypeError", raised_by |-> "step"]

InitBase ==
    /\ EnvStart
    /\ scorer = "base"
    /\ latency = 0
    /\ call = <<>>
    /\ result = <<>>

\* Env.step(*policies) of the base class
StepBase(policies) ==
    LET step_idx == _get_step_idx(_response, _start_step_idx)
        D == _create_testing_dataset(user_df, item_df, event_df, test_requests)
    IN /\ Len(step_log) < MaxSteps
       /\ \E request \in _create_request(D, policies, sample_size, clock) :
             LET response == base_invoke(request, D, step_idx)
             IN _response' = record_response(_response, step_idx, response)
       /\ result' = Append(result, error_after_invoke(recording))
       /\ call' = Append(call, policies)
       /\ snapshots' = Append(snapshots, D.event_df)
       /\ step_log' = Append(step_log, step_idx)
       /\ UNCHANGED <<user_df, item_df, event_df, test_requests, sample_size, recording,
                      _start_step_idx, _reward_by_policy, scorer, latency, clock,
                      init_event_df>>

NextBase == \E policies \in PolicyLists : StepBase(policies)

SpecBase == InitBase /\ [][NextBase]_vars

\* C13: every step() call on the base environment ends with a not-implemented
\* error raised by _invoke, with no response recorded under the step index and
\* no event appended.
C13_InvokeRaisesBeforeRecording ==
    \A c \in DOMAIN result :
        /\ result[c].raised
        /\ result[c].error = "NotImplementedError"
        /\ result[c].raised_by = "_invoke"
        /\ step_log[c] \notin DOMAIN _response
        /\ event_df = init_event_df

(***************************************************************************)
(* _sort_or_shuffle(request, _sort_candidates) on its own                  *)
(***************************************************************************)
MaxSortCand == 3    \* candidates per request row

\* group tags: two policies and the reserved -1 of _expand_na_class
SortTags == {0 - 1, 0, 1}

GroupLists == UNION {[1..n -> SortTags] : n \in 0..MaxSortCand}

title_of(item) == "title of " \o item

sort_row(u, items, groups) ==
    [USER_ID |-> u, TEST_START_TIME |-> T(2), cand_items |-> items, _group |-> groups,
     request_time |-> T(2), cand_titles |-> [n \in DOMAIN items |-> title_of(items[n])]]

\* requests of one row, and of that row followed by a second user's row
SortRequests ==
    {<<sort_row("u1", cand_items_of(0, Len(g)), g)>> : g \in GroupLists}
    \cup {<<sort_row("u1", cand_items_of(0, Len(g)), g),
            sort_row("u2", <<"i4", "i1">>, <<1, 0>>)>> : g \in GroupLists}

\* the values the _reverse_index column may take: one choice per row
reverse_index_column(request, _sort_candidates) ==
    {f \in [DOMAIN request -> UNION {reverse_index_choices(request[r]._group, _sort_candidates) :
                                        r \in DOMAIN request}] :
        \A r \in DOMAIN request :
            f[r] \in reverse_index_choices(request[r]._group, _sort_candidates)}

InitSort ==
    /\ NoEnv
    /\ clock = ConstructionTime
    /\ \E request \in SortRequests, _sort_candidates \in BOOLEAN :
          call = [request |-> request, _sort_candidates |-> _sort_candidates]
    /\ result = <<>>

\* one call _sort_or_shuffle(request, _sort_candidates)
SortOrShuffle ==
    /\ result = <<>>
    /\ \E reverse_index \in reverse_index_column(call.request, call._sort_candidates) :
          result' = <<_sort_or_shuffle(call.request, reverse_index)>>
    /\ UNCHANGED <<call, clock>>
    /\ UNCHANGED envVars

NextSort == SortOrShuffle

SpecSort == InitSort /\ [][NextSort]_vars

(***************************************************************************)
(* Properties of _sort_or_shuffle                                          *)
(***************************************************************************)
\* what position n of a row says about its candidate
triple(row, n) == <<row.cand_items[n], row._group[n], row.cand_titles[n]>>

\* out is in reordered: some one-to-one map of positions takes the one to the other
is_reordering(out, in) ==
    /\ Len(out.cand_items) = Len(in.cand_items)
    /\ Len(out._group) = Len(in._group)
    /\ Len(out.cand_titles) = Len(in.cand_titles)
    /\ Len(out._group) = Len(out.cand_items) /\ Len(out.cand_titles) = Len(out.cand_items)
    /\ \E pi \in Permutations(DOMAIN in.cand_items) :
          \A n \in DOMAIN in.cand_items : triple(out, n) = triple(in, pi[n])

\* the input position of a candidate of the output (candidates of a row differ)
position_in(in, item) == CHOOSE m \in DOMAIN in.cand_items : in.cand_items[m] = item

\* C14: with _sort_candidates set, each output row is a reordering of the
\* input row's candidates in which every input candidate, one tagged -1
\* included, appears exactly once; the tags other than -1 are in
\* non-decreasing order; candidates with equal tags keep their input order.
C14_SortedCandidateOrdering ==
    \A c \in DOMAIN result :
        call._sort_candidates =>
            \A r \in DOMAIN result[c] :
                LET out == result[c][r]
                    in == call.request[r]
                IN /\ is_reordering(out, in)
                   /\ \A n, m \in DOMAIN out._group :
                         (n < m /\ out._group[n] # 0 - 1 /\ out._group[m] # 0 - 1)
                             => out._group[n] <= out._group[m]
                   /\ \A n, m \in DOMAIN out._group :
                         (n < m /\ out._group[n] = out._group[m])
                             => position_in(in, out.cand_items[n])
                                    < position_in(in, out.cand_items[m])

\* C15: with _sort_candidates not set, each output row is the input row with
\* one permutation applied to cand_items, _group and cand_titles alike: the
\* (candidate, tag, title) triples are those of the input, each once, and
\* position n of the three columns describes one candidate.
C15_LockstepPermutation ==
    \A c \in DOMAIN result :
        ~call._sort_candidates =>
            \A r \in DOMAIN result[c] : is_reordering(result[c][r], call.request[r])

\* a shuffle that moved every candidate of a row of three, one of them tagged -1
C15_Witness ==
    /\ result # <<>>
    /\ ~call._sort_candidates
    /\ Len(call.request[1].cand_items) = 3
    /\ call.request[1]._group = <<0, 0 - 1, 1>>
    /\ result[1][1].cand_items = <<"i3", "i1", "i2">>
    /\ result[1][1]._group = <<1, 0, 0 - 1>>
    /\ result[1][1].cand_titles = <<title_of("i3"), title_of("i1"), title_of("i2")>>

(***************************************************************************)
(* Properties of request construction (specification Spec)                 *)
(***************************************************************************)
\* the 0-based position of an item in item_in_test
position_in_test(item) ==
    CHOOSE n \in 0..(Len(item_in_test_of(item_df)) - 1) : item_in_test_of(item_df)[n + 1] = item

\* the row of the response to test request r that a step() call with these
\* policies records satisfies the dedup contract
deduplicated(row, r, policies) ==
    LET D == _create_testing_dataset(user_df, item_df, event_df, test_requests)
        total_size == sample_size * Len(policies)
        J == [k \in DOMAIN policies |-> policy(policies[k], D, total_size)[r]]
    IN /\ \A n, m \in DOMAIN row.cand_items : n # m => row.cand_items[n] # row.cand_items[m]
       /\ Len(row.cand_items) <= total_size
       /\ Len(row._group) = Len(row.cand_items)
       /\ \A n \in DOMAIN row.cand_items :
             LET g == row._group[n] + 1
                 pos == position_in_test(row.cand_items[n])
             IN /\ g \in DOMAIN policies
                /\ pos \in Range(J[g])
                /\ \A k \in 1..(g - 1) : pos \notin Range(J[k])

MaxBatch == 2       \* positive pairs per batch
MaxNegatives == 2   \* n_negatives, valid_n_negatives
MaxTargets == 2     \* target items

\* faulty variant of multinomial: the replacement flag is not honoured
multinomial_with_replacement(n, num_samples, replacement) ==
    [1..num_samples -> 0..(n - 1)]

\* torch.multinomial(weights, num_samples, replacement) for one row of n
\* positive weights: the possible draws; none (a RuntimeError) when more
\* samples are asked for without replacement than there are categories
multinomial(n, num_samples, replacement) ==
    {s \in [1..num_samples -> 0..(n - 1)] :
        replacement \/ \A a, b \in 1..num_samples : a # b => s[a] # s[b]}

\* torch.multinomial on a (bsz, n) matrix: each row is drawn on its own
multinomial_rows(bsz, n, num_samples, replacement) ==
    [1..bsz -> multinomial(n, num_samples, replacement)]

\* tensor.T of a (bsz, num) tensor
transpose(m, bsz, num) == [k \in 1..num |-> [b \in 1..bsz |-> m[b][k]]]

\* tensor.reshape(n_shape) of a flat tensor, row-major
reshape(flat, n_shape) ==
    [k \in 1..n_shape[1] |-> [b \in 1..n_shape[2] |-> flat[(k - 1) * n_shape[2] + b]]]

\* faulty variant of negative_draws: the prior branch is not transposed
negative_draws_without_transpose(has_prior, n_negatives, bsz, n_items, replacement) ==
    IF has_prior
    THEN multinomial_rows(bsz, n_items, n_negatives, replacement)
    ELSE {reshape(flat, <<n_negatives, bsz>>) :
             flat \in multinomial(n_items, n_negatives * bsz, replacement)}

\* lines 132-141: the values nj may take
negative_draws(has_prior, n_negatives, bsz, n_items, replacement) ==
    IF has_prior
    THEN {transpose(m, bsz, n_negatives) :
             m \in multinomial_rows(bsz, n_items, n_negatives, replacement)}
    ELSE {reshape(flat, <<n_negatives, bsz>>) :
             flat \in multinomial(n_items, n_negatives * bsz, replacement)}

\* line 127
n_negatives_of(c) == IF c.training THEN c.n_negatives ELSE c.valid_n_negatives

\* the target positions j of the batch's positive pairs: all the first item, or
\* all the last
PositiveTargets(bsz, n_items) == {[b \in 1..bsz |-> 0], [b \in 1..bsz |-> n_items - 1]}

InitNegatives ==
    /\ NoEnv
    /\ clock = ConstructionTime
    /\ \E bsz \in 1..MaxBatch, n \in 1..MaxNegatives, v \in 1..MaxNegatives,
          n_items \in 1..MaxTargets, training \in BOOLEAN, replacement \in BOOLEAN,
          has_prior \in BOOLEAN :
          \E j \in PositiveTargets(bsz, n_items) :
              call = [batch |-> bsz, j |-> j, n_negatives |-> n, valid_n_negatives |-> v,
                      n_items |-> n_items, training |-> training,
                      replacement |-> replacement, tr_prior_score |-> has_prior]
    /\ result = <<>>

\* the torch.no_grad() block of one training_and_validation_step(batch, batch_idx)
DrawNegatives ==
    /\ result = <<>>
    /\ LET draws == negative_draws(call.tr_prior_score, n_negatives_of(call), call.batch,
                                   call.n_items, call.replacement)
       IN IF draws = {}
          THEN result' = <<[raised |-> TRUE, nj |-> <<>>]>>
          ELSE \E nj \in draws : result' = <<[raised |-> FALSE, nj |-> nj]>>
    /\ UNCHANGED <<call, clock>>
    /\ UNCHANGED envVars

NextNegatives == DrawNegatives

SpecNegatives == InitNegatives /\ [][NextNegatives]_vars

\* C17: for a batch of B positive pairs and K negatives (n_negatives when
\* training, valid_n_negatives when validating), the negatives drawn have shape
\* (K, B) and every entry is an item position in 0..(number of target items - 1),
\* in the prior-informed branch and in the global-proposal branch.
C17_NegativeSamplingShape ==
    \A c \in DOMAIN result :
        ~result[c].raised =>
            LET K == IF call.training THEN call.n_negatives ELSE call.valid_n_negatives
            IN /\ Len(result[c].nj) = K
               /\ \A k \in DOMAIN result[c].nj :
                     /\ Len(result[c].nj[k]) = call.batch
                     /\ \A b \in DOMAIN result[c].nj[k] :
                           result[c].nj[k][b] \in 0..(call.n_items - 1)

\* a validation batch of two pairs with one negative each, prior-informed
C17_Witness ==
    /\ result # <<>>
    /\ ~result[1].raised
    /\ call.tr_prior_score
    /\ ~call.training
    /\ call.n_negatives = 2 /\ call.valid_n_negatives = 1
    /\ call.batch = 2
    /\ call.n_items = 2
    /\ result[1].nj = <<<<1, 0>>>>

(***************************************************************************)
(* Further properties of parse_response (specification SpecParse)          *)
(***************************************************************************)
\* the event is stamped with its row's request_time, or with a thousandth of it
stamped_as_requested(response, e) == e.TIMESTAMP = row_of(response, e).request_time

stamped_in_thousandths(response, e) ==
    e.TIMESTAMP * Unit = row_of(response, e).request_time

\* C18: with infer_time_unit on, a call made when the largest timestamp of the
\* response is after the wall clock returns every event with its timestamp
\* divided by 1000, and any other call returns every timestamp unchanged: one
\* call never divides some rows and not others.
C18_TimeUnitFixupAllOrNothing ==
    \A c \in DOMAIN result.parsed :
        (call.infer_time_unit /\ ~result.parsed[c].raised) =>
            LET p == result.parsed[c]
                exceeds == \E k \in DOMAIN call.given : call.given[k].request_time > p.at
            IN /\ exceeds => \A n \in DOMAIN p.events : stamped_in_thousandths(call.given, p.events[n])
               /\ ~exceeds => \A n \in DOMAIN p.events : stamped_as_requested(call.given, p.events[n])

\* one row requested before the call and one after it: both are divided
C18_Witness ==
    /\ Len(result.parsed) >= 1
    /\ ~result.parsed[1].raised
    /\ call.infer_time_unit
    /\ Len(call.given) = 2
    /\ call.given[1].request_time = T(2)
    /\ call.given[2].request_time = T(3000)
    /\ result.parsed[1].at = T(3)
    /\ \E n, m \in DOMAIN result.parsed[1].events :
          /\ result.parsed[1].events[n].USER_ID = "u1"
          /\ result.parsed[1].events[n].TIMESTAMP = 2
          /\ result.parsed[1].events[m].USER_ID = "u2"
          /\ result.parsed[1].events[m].TIMESTAMP = T(3)

\* C19: called without step_idx, parse_response gives each response row the
\* dense rank, from 0, of its request_time: events of rows with equal
\* request_time carry the same index, events of a row with an earlier
\* request_time a smaller one, and the indices in use are exactly 0..d-1 for d
\* distinct request_time values.
C19_InferredStepIndices ==
    \A c \in DOMAIN result.parsed :
        (call.step_idx = None /\ ~result.parsed[c].raised) =>
            LET events == result.parsed[c].events
                time_of(n) == row_of(call.given, events[n]).request_time
                d == Cardinality({call.given[k].request_time : k \in DOMAIN call.given})
            IN /\ \A n, m \in DOMAIN events :
                     /\ time_of(n) = time_of(m) => events[n].step_idx = events[m].step_idx
                     /\ time_of(n) < time_of(m) => events[n].step_idx < events[m].step_idx
               /\ {events[n].step_idx : n \in DOMAIN events} = 0..(d - 1)

\* three rows, the first two requested at one time and the third later
C19_Witness ==
    /\ Len(result.parsed) >= 1
    /\ ~result.parsed[1].raised
    /\ call.step_idx = None
    /\ Len(call.given) = 3
    /\ call.given[1].request_time = T(2)
    /\ call.given[2].request_time = T(2)
    /\ call.given[3].request_time = T(4)
    /\ [n \in DOMAIN result.parsed[1].events |-> result.parsed[1].events[n].step_idx]
           = <<0, 0, 1>>

(***************************************************************************)
(* Env._create_training_dataset(before_step_idx)                           *)
(*                                                                         *)
(* The request table is a sequence of rows [USER_ID, TIMESTAMP, _siz] in   *)
(* the order of the (USER_ID, TIMESTAMP) index that groupby sorts.         *)
(***************************************************************************)
\* the user ids of the environments above, in lexicographic order
UserIdOrder == <<"u1", "u2">>

id_rank(u) == CHOOSE k \in DOMAIN UserIdOrder : UserIdOrder[k] = u

key_before(a, b) ==
    \/ id_rank(a[1]) < id_rank(b[1])
    \/ a[1] = b[1] /\ a[2] < b[2]

RECURSIVE sorted_keys(_)
sorted_keys(keys) ==
    IF keys = {} THEN <<>>
    ELSE LET first == CHOOSE a \in keys : \A b \in keys \ {a} : key_before(a, b)
         IN <<first>> \o sorted_keys(keys \ {first})

\* the log has a step_idx column once events of a step have been appended;
\* without it the query raises
has_step_idx_column(events) == \E k \in DOMAIN events : "step_idx" \in DOMAIN events[k]

\* faulty variant of query_step_idx: the upper bound is inclusive
query_step_idx_through(events, before_step_idx) ==
    boolean_mask(events, [k \in DOMAIN events |->
        /\ events[k].step_idx # NaN
        /\ 0 <= events[k].step_idx
        /\ events[k].step_idx <= before_step_idx])

\* event_df.query("0 <= step_idx < before_step_idx"): a comparison with nan is false
query_step_idx(events, before_step_idx) ==
    boolean_mask(events, [k \in DOMAIN events |->
        /\ events[k].step_idx # NaN
        /\ 0 <= events[k].step_idx
        /\ events[k].step_idx < before_step_idx])

\* .groupby(['USER_ID', 'TIMESTAMP']).size().to_frame('_siz')
groupby_size(rows) ==
    LET keys == sorted_keys({<<rows[k].USER_ID, rows[k].TIMESTAMP>> : k \in DOMAIN rows})
    IN [g \in DOMAIN keys |->
           [USER_ID |-> keys[g][1], TIMESTAMP |-> keys[g][2],
            _siz |-> Cardinality({k \in DOMAIN rows :
                         <<rows[k].USER_ID, rows[k].TIMESTAMP>> = keys[g]})]]

\* the arguments the Dataset is built with; horizon=0.01 is 10 thousandths
_create_training_dataset(users, items, events, before_step_idx) ==
    IF ~has_step_idx_column(events)
    THEN [raised |-> TRUE, test_requests |-> <<>>, horizon |-> 0, sample_with_prior |-> 0]
    ELSE [raised |-> FALSE,
          test_requests |-> groupby_size(query_step_idx(events, before_step_idx)),
          horizon |-> Unit \div 100, sample_with_prior |-> 1]

\* before_step_idx: every index a step may use, one more, and the default
BeforeChoices == 0..(MaxSteps + 1) \cup {inf}

InitTraining ==
    /\ EnvStart
    /\ scorer = "first"
    /\ latency \in {0, T(1)}
    /\ call = <<>>
    /\ result = <<>>

\* step() calls made while no training dataset has been asked for
StepBeforeTraining ==
    /\ result = <<>>
    /\ \E policies \in PolicyLists : Step(policies)

\* one call self._create_training_dataset(before_step_idx)
CreateTrainingDataset(before_step_idx) ==
    /\ result = <<>>
    /\ call' = <<before_step_idx>>
    /\ result' = <<_create_training_dataset(user_df, item_df, event_df, before_step_idx)>>
    /\ UNCHANGED clock
    /\ UNCHANGED envVars

NextTraining ==
    \/ StepBeforeTraining
    \/ \E before_step_idx \in BeforeChoices : CreateTrainingDataset(before_step_idx)

SpecTraining == InitTraining /\ [][NextTraining]_vars

\* the logged events a request table for call[c] is made from
in_training_range(e, before_step_idx) ==
    /\ "step_idx" \in DOMAIN e
    /\ e.step_idx # NaN
    /\ 0 <= e.step_idx
    /\ e.step_idx < before_step_idx

events_of_request(u, ts, before_step_idx) ==
    {k \in DOMAIN event_df :
        /\ in_training_range(event_df[k], before_step_idx)
        /\ event_df[k].USER_ID = u
        /\ event_df[k].TIMESTAMP = ts}

\* C20: the request table of _create_training_dataset(before_step_idx) has
\* exactly one row per (USER_ID, TIMESTAMP) of the logged events with
\* 0 <= step_idx < before_step_idx, its _siz being the number of those events;
\* events without a step index and events of other steps give no row.
C20_TrainingRequestExtraction ==
    \A c \in DOMAIN result :
        ~result[c].raised =>
            LET requests == result[c].test_requests
            IN /\ \A k \in DOMAIN event_df :
                     in_training_range(event_df[k], call[c]) =>
                         \E g \in DOMAIN requests :
                             /\ requests[g].USER_ID = event_df[k].USER_ID
                             /\ requests[g].TIMESTAMP = event_df[k].TIMESTAMP
               /\ \A g \in DOMAIN requests :
                     /\ requests[g]._siz > 0
                     /\ requests[g]._siz = Cardinality(events_of_request(
                            requests[g].USER_ID, requests[g].TIMESTAMP, call[c]))
               /\ \A g, h \in DOMAIN requests :
                     (requests[g].USER_ID = requests[h].USER_ID
                      /\ requests[g].TIMESTAMP = requests[h].TIMESTAMP) => g = h

\* a log with initial events and events of steps 0 and 1, cut before step 1:
\* two requests of two candidates each
C20_Witness ==
    /\ result # <<>>
    /\ ~result[1].raised
    /\ call = <<1>>
    /\ \E k \in DOMAIN event_df : event_df[k].step_idx = NaN
    /\ \E k \in DOMAIN event_df : event_df[k].step_idx = 0
    /\ \E k \in DOMAIN event_df : event_df[k].step_idx = 1
    /\ Len(result[1].test_requests) = 2
    /\ result[1].test_requests[1]._siz = 2
    /\ result[1].test_requests[2].USER_ID = "u2"

(***************************************************************************)
(* Further properties of _sanitize_inputs (specification SpecSanitize)     *)
(***************************************************************************)
\* C25: the wall-clock assertion is made on all supplied events, before the
\* unknown users and items are filtered out: a call with an event of an
\* unknown USER_ID or ITEM_ID stamped at or after the wall clock fails, and so
\* does a call with an empty event log.
C25_ChecksBeforeFiltering ==
    \A c \in DOMAIN result :
        (\/ supplied_rows = <<>>
         \/ \E k \in DOMAIN supplied_rows :
               ~is_known(supplied_rows[k]) /\ supplied_rows[k].TIMESTAMP >= clock)
        => (result[c].raised /\ result[c].events = <<>>)

\* a known past event followed by an event of an unknown user and item that is
\* stamped after the wall clock
C25_Witness ==
    /\ result # <<>>
    /\ result[1].raised
    /\ call.user_df = SanitizeUsers
    /\ ~call.event_df.is_none
    /\ Len(call.event_df.rows) = 2
    /\ is_known(call.event_df.rows[1])
    /\ call.event_df.rows[1].TIMESTAMP < clock
    /\ call.event_df.rows[2].USER_ID = "ux"
    /\ call.event_df.rows[2].ITEM_ID = "ix"
    /\ call.event_df.rows[2].TIMESTAMP > clock

\* the negatives a call may draw, by the arguments of the call
draws_of_call ==
    negative_draws(call.tr_prior_score, n_negatives_of(call), call.batch, call.n_items,
                   call.replacement)

\* C26: with replacement off, the K negatives drawn for one positive pair in
\* the prior-informed branch are pairwise distinct; in the global-proposal
\* branch all K*B negatives of the batch are pairwise distinct and the draw
\* fails when K*B exceeds the number of items; in both branches a draw that
\* succeeds may hold the pair's positive item j among its negatives.
C26_WithoutReplacement ==
    ~call.replacement =>
        LET K == n_negatives_of(call)
        IN /\ \A c \in DOMAIN result :
                 LET nj == result[c].nj
                 IN /\ (~result[c].raised /\ call.tr_prior_score) =>
                           \A b \in 1..call.batch : \A k, l \in 1..K :
                               k # l => nj[k][b] # nj[l][b]
                    /\ (~result[c].raised /\ ~call.tr_prior_score) =>
                           \A b, d \in 1..call.batch : \A k, l \in 1..K :
                               <<k, b>> # <<l, d>> => nj[k][b] # nj[l][d]
                    /\ (~call.tr_prior_score /\ K * call.batch > call.n_items) =>
                           result[c].raised
           /\ (result = <<>> /\ draws_of_call # {}) =>
                 \A b \in 1..call.batch :
                     \E nj \in draws_of_call : \E k \in 1..K : nj[k][b] = call.j[b]

\* a global draw of two negatives for a batch of two pairs over two items: the
\* negatives differ and the second is the positive item of its pair
C26_Witness ==
    /\ result # <<>>
    /\ ~result[1].raised
    /\ ~call.replacement
    /\ ~call.tr_prior_score
    /\ call.batch = 2
    /\ call.n_items = 2
    /\ call.j = <<0, 0>>
    /\ result[1].nj = <<<<1, 0>>>>

(***************************************************************************)
(* query_least_certain_users(batch_size)(user_df, event_df)                *)
(*                                                                         *)
(* The returned table is a sequence of rows [USER_ID, TEST_START_TIME,     *)
(* _value_sum], indexed by (USER_ID, TEST_START_TIME).  sort_values does   *)
(* not fix the order of users with equal sums: every such order is a       *)
(* possible outcome.                                                       *)
(***************************************************************************)
MaxQueryEvents == 3     \* rows of the event log handed to the selector

\* line 190-191: the ITEM_ID of the user's first event, in log order, with
\* TIMESTAMP < TEST_START_TIME; first() skips missing ids; NA when there is none
user_context(users, events, u) ==
    LET pre == {k \in DOMAIN events :
                   /\ events[k].USER_ID = u
                   /\ events[k].TIMESTAMP < test_start_time_of(users, u)
                   /\ events[k].ITEM_ID # NA}
    IN IF pre = {} THEN NA
       ELSE events[CHOOSE k \in pre : \A j \in pre : k <= j].ITEM_ID

\* faulty variant of value_sum: the events of the given item are counted too
value_sum_over_all_events(users, events, u) ==
    SumSeq([k \in DOMAIN events |->
        IF events[k].USER_ID = u /\ events[k].VALUE # NaN THEN events[k].VALUE ELSE 0])

\* lines 193-194: .query('given != ITEM_ID').groupby('USER_ID')['VALUE'].sum()
\* .reindex(user_df.index, fill_value=0); a missing given or ITEM_ID differs
\* from everything, a missing VALUE adds nothing
value_sum(users, events, u) ==
    LET given == user_context(users, events, u)
    IN SumSeq([k \in DOMAIN events |->
           IF /\ events[k].USER_ID = u
              /\ (given = NA \/ events[k].ITEM_ID = NA \/ events[k].ITEM_ID # given)
              /\ events[k].VALUE # NaN
           THEN events[k].VALUE ELSE 0])

\* .sort_values(): the orders of the user table by ascending sum
sort_values_orders(users, events) ==
    {pi \in Permutations(DOMAIN users) :
        \A a, b \in DOMAIN users :
            a < b => value_sum(users, events, users[pi[a]].USER_ID)
                         <= value_sum(users, events, users[pi[b]].USER_ID)}

\* the tables the function returned by query_least_certain_users(batch_size)
\* may return for (user_df, event_df)
query_least_certain_users(batch_size, users, events) ==
    LET n == IF batch_size < Len(users) THEN batch_size ELSE Len(users)
    IN {[k \in 1..n |->
            [USER_ID |-> users[pi[k]].USER_ID,
             TEST_START_TIME |-> users[pi[k]].TEST_START_TIME,
             _value_sum |-> value_sum(users, events, users[pi[k]].USER_ID)]] :
           pi \in sort_values_orders(users, events)}

QueryUsers == <<plain_user("u1", T(2)), plain_user("u2", T(2)), plain_user("u3", T(1))>>

\* events before and after their user's TEST_START_TIME, of the item seen
\* first and of another one, with values 0, 1 and 2
QueryEventChoices ==
    { event("u1", "i1", T(1), 1), event("u1", "i2", T(1), 1), event("u1", "i2", T(3), 1),
      event("u2", "i1", T(2), 2), event("u2", "i2", T(1), 0), event("u2", "i1", T(1), 1),
      event("u3", "i1", T(0), 1) }

QueryEventTables == UNION {[1..n -> QueryEventChoices] : n \in 1..MaxQueryEvents}

BatchSizes == 1..(Len(QueryUsers) + 1)

InitQuery ==
    /\ NoEnv
    /\ clock = ConstructionTime
    /\ \E events \in QueryEventTables, batch_size \in BatchSizes :
          call = [batch_size |-> batch_size, user_df |-> QueryUsers, event_df |-> events]
    /\ result = <<>>

\* one call query_least_certain_users(batch_size)(user_df, event_df)
QueryLeastCertainUsers ==
    /\ result = <<>>
    /\ \E requests \in query_least_certain_users(call.batch_size, call.user_df, call.event_df) :
          result' = <<requests>>
    /\ UNCHANGED <<call, clock>>
    /\ UNCHANGED envVars

NextQuery == QueryLeastCertainUsers

SpecQuery == InitQuery /\ [][NextQuery]_vars

(***************************************************************************)
(* Properties of query_least_certain_users                                 *)
(***************************************************************************)
cutoff_of(u) ==
    call.user_df[CHOOSE k \in DOMAIN call.user_df : call.user_df[k].USER_ID = u].TEST_START_TIME

\* event k is its user's first pre-cutoff event of the log
is_first_pre_cutoff(k) ==
    /\ call.event_df[k].TIMESTAMP < cutoff_of(call.event_df[k].USER_ID)
    /\ \A j \in 1..(k - 1) :
          call.event_df[j].USER_ID = call.event_df[k].USER_ID
              => call.event_df[j].TIMESTAMP >= cutoff_of(call.event_df[j].USER_ID)

\* the item of event k differs from its user's first pre-cutoff item
differs_from_first(k) ==
    \A j \in DOMAIN call.event_df :
        (is_first_pre_cutoff(j) /\ call.event_df[j].USER_ID = call.event_df[k].USER_ID)
            => call.event_df[j].ITEM_ID # call.event_df[k].ITEM_ID

differing_value_sum(u) ==
    SumSeq([k \in DOMAIN call.event_df |->
        IF call.event_df[k].USER_ID = u /\ differs_from_first(k)
        THEN call.event_df[k].VALUE ELSE 0])

\* C21: the returned table holds min(batch_size, number of users) distinct
\* users of the user table, each with its TEST_START_TIME and with the sum of
\* VALUE over its events whose ITEM_ID differs from its first pre-cutoff item
\* (0 without such an event); no user left out has a strictly smaller sum than
\* a user returned.
C21_LeastCertainUsers ==
    \A c \in DOMAIN result :
        LET requests == result[c]
            selected == {requests[k].USER_ID : k \in DOMAIN requests}
            all_users == {call.user_df[k].USER_ID : k \in DOMAIN call.user_df}
        IN /\ Len(requests) = IF call.batch_size < Len(call.user_df)
                              THEN call.batch_size ELSE Len(call.user_df)
           /\ \A k, l \in DOMAIN requests : k # l => requests[k].USER_ID # requests[l].USER_ID
           /\ selected \subseteq all_users
           /\ \A k \in DOMAIN requests :
                 /\ requests[k].TEST_START_TIME = cutoff_of(requests[k].USER_ID)
                 /\ requests[k]._value_sum = differing_value_sum(requests[k].USER_ID)
           /\ \A u \in all_users \ selected : \A v \in selected :
                 differing_value_sum(u) >= differing_value_sum(v)

\* u1 has an event of its first item and a later one of another item, u2 only
\* events of its first item: of three users the two with sum 0 are returned
C21_Witness ==
    /\ result # <<>>
    /\ call.batch_size = 2
    /\ call.event_df = <<event("u1", "i1", T(1), 1), event("u1", "i2", T(3), 1),
                         event("u2", "i1", T(1), 1)>>
    /\ Len(result[1]) = 2
    /\ result[1][1].USER_ID = "u3"
    /\ result[1][2].USER_ID = "u2"
    /\ result[1][2]._value_sum = 0

(***************************************************************************)
(* Environments whose test_requests may be a function: construction, then  *)
(* step() calls                                                            *)
(*                                                                         *)
(* A callable test_requests is [kind |-> "callable", rows, batch_size]:    *)
(* the function query_least_certain_users(batch_size) returns.  call holds *)
(* the constructor arguments and, per invocation of the function, the      *)
(* (user_df, event_df) it was given; result holds the outcome of the       *)
(* construction.                                                           *)
(***************************************************************************)
SelectRequests ==
    { [kind |-> "None", rows |-> <<>>, batch_size |-> 0],
      [kind |-> "callable", rows |-> <<>>, batch_size |-> 1],
      [kind |-> "callable", rows |-> <<>>, batch_size |-> 2] }

InitSelect ==
    /\ NoEnv
    /\ clock = ConstructionTime
    /\ \E events \in ConstructEvents, requests \in SelectRequests, rec \in BOOLEAN,
          ssize \in {1, 2} :
          call = [args |-> [user_df |-> ConstructUsers, item_df |-> EnvItems,
                            event_df |-> events, clear_future_events |-> "None",
                            test_requests |-> requests, recording |-> rec,
                            horizon |-> inf, sample_size |-> ssize],
                  selector_calls |-> <<>>]
    /\ result = <<>>

\* Env(user_df, item_df, event_df, ...): the fields are set when __post_init__
\* completes
ConstructSelect ==
    /\ result = <<>>
    /\ LET outcome == __post_init__(call.args, clock)
       IN /\ result' = <<outcome>>
          /\ IF outcome.raised
             THEN UNCHANGED <<user_df, item_df, event_df, init_event_df, test_requests,
                              sample_size, recording, scorer>>
             ELSE /\ user_df' = call.args.user_df
                  /\ item_df' = call.args.item_df
                  /\ event_df' = outcome.event_df
                  /\ init_event_df' = outcome.event_df
                  /\ test_requests' = [call.args.test_requests EXCEPT
                                          !.rows = outcome.test_requests.rows]
                  /\ sample_size' = call.args.sample_size
                  /\ recording' = call.args.recording
                  /\ scorer' = "first"
    /\ UNCHANGED <<call, clock, _start_step_idx, _response, _reward_by_policy, latency,
                   snapshots, step_log>>

\* lines 140-143: the test requests of a step
test_requests_of_step(requests, users, events) ==
    IF requests.kind = "callable"
    THEN query_least_certain_users(requests.batch_size, users, events)
    ELSE {requests.rows}

\* Env.step(*policies) of a constructed environment
StepSelect(policies) ==
    LET step_idx == _get_step_idx(_response, _start_step_idx)
    IN /\ result # <<>>
       /\ ~result[1].raised
       /\ Len(step_log) < MaxSteps
       /\ \E requests \in test_requests_of_step(test_requests, user_df, event_df) :
             LET D == _create_testing_dataset(user_df, item_df, event_df, requests)
             IN \E request \in _create_request(D, policies, sample_size, clock) :
                   LET response == _invoke(scorer, request, D, step_idx)
                   IN /\ _response' = record_response(_response, step_idx, response)
                      /\ event_df' = events_after_step(recording, event_df, response,
                                                       step_idx, clock + latency)
                      /\ _reward_by_policy' =
                             Append(_reward_by_policy, _evaluate_response(response))
       /\ call' = IF test_requests.kind = "callable"
                  THEN [call EXCEPT !.selector_calls =
                           Append(@, [user_df |-> user_df, event_df |-> event_df])]
                  ELSE call
       /\ clock' = clock + latency
       /\ snapshots' = Append(snapshots, event_df)
       /\ step_log' = Append(step_log, step_idx)
       /\ UNCHANGED <<user_df, item_df, test_requests, sample_size, recording,
                      _start_step_idx, scorer, latency, init_event_df, result>>

NextSelect ==
    \/ ConstructSelect
    \/ \E policies \in PolicyLists : StepSelect(policies)

SpecSelect == InitSelect /\ [][NextSelect]_vars

\* C24: constructing an Env with recording on and a callable test_requests
\* fails; a callable test_requests is therefore only invoked while the event
\* log is the one of construction, and every invocation is given that log.
C24_CallableNeedsRecordingOff ==
    /\ \A c \in DOMAIN result :
          (call.args.recording /\ call.args.test_requests.kind = "callable")
              => result[c].raised
    /\ call.selector_calls # <<>> =>
          /\ ~recording
          /\ event_df = init_event_df
          /\ \A n \in DOMAIN call.selector_calls :
                call.selector_calls[n].event_df = init_event_df

\* two steps of an environment whose test_requests is a function
C24_Witness ==
    /\ Len(call.selector_calls) = 2
    /\ Len(step_log) = 2
    /\ call.args.test_requests.batch_size = 1
    /\ DOMAIN _response = {0, 1}
    /\ Len(_response[1]) = 1

(***************************************************************************)
(* The calls a step() makes                                                *)
(*                                                                         *)
(* sample_size is [scalar, value, sizes]: a number, or a sequence with one *)
(* size per policy.  result is the sequence of the calls made to the       *)
(* policies and to _invoke, in the order they are made; call holds the     *)
(* policies of each step().                                                *)
(***************************************************************************)
scalar_sample_size(v) == [scalar |-> TRUE, value |-> v, sizes |-> <<>>]

sample_size_per_policy(sizes) == [scalar |-> FALSE, value |-> 0, sizes |-> sizes]

TraceSampleSizes ==
    {scalar_sample_size(1), scalar_sample_size(2),
     sample_size_per_policy(<<1, 2>>), sample_size_per_policy(<<2, 1>>)}

np_size(ssize) == IF ssize.scalar THEN 1 ELSE Len(ssize.sizes)

\* line 146; the sequences used here hold two sizes
per_policy_sizes(ssize, policies) ==
    IF np_size(ssize) > 1 THEN ssize.sizes ELSE [k \in DOMAIN policies |-> ssize.value]

\* faulty variant of total_size_of: a scalar sample_size is counted once
total_size_counting_scalar_once(ssize, policies) ==
    IF np_size(ssize) > 1 THEN SumSeq(ssize.sizes) ELSE ssize.value

\* line 147: total_size = sum(sample_size)
total_size_of(ssize, policies) == SumSeq(per_policy_sizes(ssize, policies))

\* lines 148 and 126: p(D, total_size) for each policy in turn, then
\* self._invoke(request, D, step_idx)
calls_of_step(policies, sc, D, ssize, step_idx) ==
    [k \in DOMAIN policies |->
        [op |-> "policy", name |-> policies[k], event_df |-> D.event_df,
         total_size |-> total_size_of(ssize, policies), step_idx |-> step_idx]]
    \o <<[op |-> "_invoke", name |-> sc, event_df |-> D.event_df,
          total_size |-> None, step_idx |-> step_idx]>>

InitTrace ==
    /\ EnvStartWith(TraceSampleSizes)
    /\ scorer = "first"
    /\ latency = 0
    /\ call = <<>>
    /\ result = <<>>

\* Env.step(*policies), with the calls it makes
StepTraced(policies) ==
    LET step_idx == _get_step_idx(_response, _start_step_idx)
        D == _create_testing_dataset(user_df, item_df, event_df, test_requests)
        sizes == per_policy_sizes(sample_size, policies)
    IN /\ Len(step_log) < MaxSteps
       \* a sequence of sizes is used with as many policies as it has sizes
       /\ sample_size.scalar \/ Len(policies) = Len(sample_size.sizes)
       /\ \E request \in sorted_or_shuffled(merged_request_of_sizes(D, policies, sizes, clock)) :
             LET response == _invoke(scorer, request, D, step_idx)
             IN /\ _response' = record_response(_response, step_idx, response)
                /\ event_df' = events_after_step(recording, event_df, response, step_idx,
                                                 clock + latency)
                /\ _reward_by_policy' = Append(_reward_by_policy, _evaluate_response(response))
       /\ result' = result \o calls_of_step(policies, scorer, D, sample_size, step_idx)
       /\ call' = Append(call, policies)
       /\ clock' = clock + latency
       /\ snapshots' = Append(snapshots, D.event_df)
       /\ step_log' = Append(step_log, step_idx)
       /\ UNCHANGED <<user_df, item_df, test_requests, sample_size, recording,
                      _start_step_idx, scorer, latency, init_event_df>>

NextTrace == \E policies \in PolicyLists : StepTraced(policies)

SpecTrace == InitTrace /\ [][NextTrace]_vars

\* the calls made by the step() that used this step index, in order
calls_at(step_idx) ==
    boolean_mask(result, [n \in DOMAIN result |-> result[n].step_idx = step_idx])

\* the candidate budget of a step(): the sum of the per-policy sizes, a scalar
\* sample_size counting once per policy
budget(policies) ==
    IF sample_size.scalar THEN sample_size.value * Len(policies)
    ELSE sample_size.sizes[1] + sample_size.sizes[2]

\* C22: in each step() every policy given is called exactly once, in the order
\* given, with the dataset snapshot of that step and the total candidate
\* budget, and the one _invoke call of the step comes after all of them.
C22_PolicyInvocation ==
    \A k \in DOMAIN step_log :
        LET calls == calls_at(step_log[k])
            policies == call[k]
        IN /\ Len(calls) = Len(policies) + 1
           /\ \A n \in DOMAIN policies :
                 /\ calls[n].op = "policy"
                 /\ calls[n].name = policies[n]
                 /\ calls[n].event_df = snapshots[k]
                 /\ calls[n].total_size = budget(policies)
           /\ calls[Len(policies) + 1].op = "_invoke"
           /\ calls[Len(policies) + 1].event_df = snapshots[k]

\* the second step() of a recording environment with a scalar sample_size of 2,
\* called with the policies tail and head
C22_Witness ==
    /\ Len(step_log) = 2
    /\ recording
    /\ sample_size = scalar_sample_size(2)
    /\ call[2] = <<"tail", "head">>
    /\ Len(result) >= 5
    /\ result[Len(result) - 2].name = "tail"
    /\ result[Len(result) - 1].name = "head"
    /\ result[Len(result) - 1].total_size = 4
    /\ result[Len(result)].op = "_invoke"
    /\ Len(snapshots[2]) > Len(snapshots[1])

(***************************************************************************)
(* A scorer whose response may not translate into events                   *)
(*                                                                         *)
(* The _invoke override may leave out the last label of every row that has *)
(* two candidates or more.  result holds, per step() call, how it ended.   *)
(***************************************************************************)
\* an _invoke override: the labels of the scorer "first", complete or short
short_invoke(short, request, D, step_idx) ==
    LET response == _invoke("first", request, D, step_idx)
    IN [r \in DOMAIN response |->
           IF short /\ Len(response[r].multi_label) >= 2
           THEN [response[r] EXCEPT
                    !.multi_label = SubSeq(response[r].multi_label, 1,
                                           Len(response[r].multi_label) - 1)]
           ELSE response[r]]

\* how step() ends after line 127: _update_events raises at line 236 when the
\* exploded columns differ in length; np.vstack(response['multi_label']) of
\* line 132 raises on rows that do not stack; then _evaluate_response (line 134)
error_after_record(rec, response) ==
    IF rec /\ parse_response_raises(response)
    THEN [raised |-> TRUE, error |-> "ValueError", raised_by |-> "parse_response"]
    ELSE IF vstack_raises([k \in DOMAIN response |-> response[k].multi_label])
         THEN [raised |-> TRUE, error |-> "ValueError", raised_by |-> "step"]
         ELSE IF evaluate_response_raises(response)
              THEN [raised |-> TRUE, error |-> evaluate_response_error(response),
                    raised_by |-> "_evaluate_response"]
              ELSE [raised |-> FALSE, error |-> "", raised_by |-> ""]

InitShort ==
    /\ EnvStart
    /\ scorer = "short"
    /\ latency = 0
    /\ call = <<>>
    /\ result = <<>>

\* Env.step(*policies) with that scorer
StepShort(policies) ==
    LET step_idx == _get_step_idx(_response, _start_step_idx)
        D == _create_testing_dataset(user_df, item_df, event_df, test_requests)
    IN /\ Len(step_log) < MaxSteps
       /\ \E request \in _create_request(D, policies, sample_size, clock), short \in BOOLEAN :
             LET response == short_invoke(short, request, D, step_idx)
                 error == error_after_record(recording, response)
             IN /\ _response' = record_response(_response, step_idx, response)
                /\ event_df' = IF error.raised_by = "parse_response" THEN event_df
                               ELSE events_after_step(recording, event_df, response,
                                                      step_idx, clock)
                /\ _reward_by_policy' = IF error.raised THEN _reward_by_policy
                                        ELSE Append(_reward_by_policy,
                                                    _evaluate_response(response))
                /\ result' = Append(result, error)
       /\ call' = Append(call, policies)
       /\ snapshots' = Append(snapshots, D.event_df)
       /\ step_log' = Append(step_log, step_idx)
       /\ UNCHANGED <<user_df, item_df, test_requests, sample_size, recording,
                      _start_step_idx, scorer, latency, clock, init_event_df>>

NextShort == \E policies \in PolicyLists : StepShort(policies)

SpecShort == InitShort /\ [][NextShort]_vars

\* the step indices that events of the log carry
logged_step_indices ==
    {event_df[n].step_idx :
        n \in {m \in DOMAIN event_df : "step_idx" \in DOMAIN event_df[m]}} \ {NaN}

\* C23: with recording on, a step index is a key of the recorded responses
\* exactly if the events of that step are in the event log, and a step() that
\* failed leaves its step index unused.
C23_ResponsesMatchEventLog ==
    recording =>
        /\ DOMAIN _response = logged_step_indices
        /\ \A c \in DOMAIN result :
              result[c].raised => step_log[c] \notin DOMAIN _response

====
